---- MODULE Spec2Model ----
(***************************************************************************)
(* A model of aws_sso_flow: the expiry cache (src/src/cache.rs), the       *)
(* device-authorization polling client (src/src/sso_oidc.rs), the          *)
(* credentials exchange (src/src/sso.rs), the orchestration of the three   *)
(* cached steps (src/src/flow.rs) and the top-level entry point            *)
(* (src/src/lib.rs, src/src/builder.rs).                                   *)
(*                                                                         *)
(* Time is counted in whole seconds from the start of a behaviour; files   *)
(* left in the cache directory by earlier runs may carry expiry times      *)
(* before that origin.  One step of the model is one stretch of code       *)
(* between two suspension points (.await) of the async functions.          *)
(***************************************************************************)
EXTENDS Integers, Sequences, FiniteSets, TLC

\* cache.rs:13  const CACHE_BUFFER: Duration = Duration::from_secs(60)
CACHE_BUFFER == 60

\* The clock runs from 0 to MaxNow.
MaxNow == 1
\* The identity provider answers AuthorizationPending at most MaxPending
\* times in one create_token.
MaxPending == 2
\* The identity provider hands out at most MaxIssued fresh ids.
MaxIssued == 5

Procs == {"p1", "p2"}
\* The processes that run in the sequential specification Spec.
MainProcs == {"p1"}

\* flow.rs:104,117,143  the three prefixes handed to get_or_init
Prefixes == {"client", "token", "credentials"}

\* lib.rs:51-56  CLIENT_NAME = "<pkg>@0.<minor>"
CLIENT_NAME == "aws_sso_flow@0.1"

-----------------------------------------------------------------------------
(* Option and Result values *)

None == [some |-> FALSE]
Some(v) == [some |-> TRUE, val |-> v]
Ok(v) == [ok |-> TRUE, val |-> v]
Err(e) == [ok |-> FALSE, err |-> e]

Without(r, f) == [g \in (DOMAIN r) \ {f} |-> r[g]]

-----------------------------------------------------------------------------
(* builder.rs:176-193  SsoConfig; the one configuration of this model *)

TheConfig ==
    [region |-> "eu-west-1", start_url |-> "https://myorg.awsapps.com/start",
     account_id |-> "012345678910", role_name |-> "PowerUser"]

\* What SsoConfigSource::load can answer (builder.rs:135, profile.rs:79-86).
LoadOutcomes ==
    {Ok(TheConfig), Err("profile is not defined"), Err("incomplete SSO configuration")}

-----------------------------------------------------------------------------
(* The fingerprint of a configuration: cache.rs:21-29 and cache.rs:106-141. *)
(* A digest is a sequence of 16 bytes, a u64 its 8 bytes in big-endian      *)
(* order.                                                                   *)

\* Configurations that differ from TheConfig in exactly one field.
OtherRegion == [TheConfig EXCEPT !.region = "us-east-1"]
OtherStartUrl == [TheConfig EXCEPT !.start_url = "https://other.awsapps.com/start"]
OtherAccount == [TheConfig EXCEPT !.account_id = "109876543210"]
OtherRole == [TheConfig EXCEPT !.role_name = "ReadOnly"]

\* builder.rs:95-110, 195-203  the configurations a caller may set on the
\* builder; in the order in which the digests of a behaviour are listed.
ConfigList == <<TheConfig, OtherRegion, OtherStartUrl, OtherAccount, OtherRole>>
Configs == {ConfigList[i] : i \in DOMAIN ConfigList}

\* region.rs:6-8  #[derive(Hash)] of Region: what the wrapped region writes
\* to the hasher, a text that is different for different regions.
RegionHash(region) == "<" \o region \o ">"

\* impl Hash for str: write(bytes) followed by write_u8(0xff).  The byte 0xff
\* is in no UTF-8 text; "|" stands for it and is in no text of this model.
StrHash(s) == s \o "|"

\* HashStream that leaves the role name out.
HashStreamWithoutRole(config) ==
    RegionHash(config.region) \o StrHash(config.start_url)
        \o StrHash(config.account_id)

\* builder.rs:176-193, cache.rs:23, cache.rs:119-125  #[derive(Hash)] of
\* SsoConfig: the bytes suffix.hash(&mut hasher) writes, field after field.
HashStream(config) ==
    RegionHash(config.region) \o StrHash(config.start_url)
        \o StrHash(config.account_id) \o StrHash(config.role_name)

Streams == {HashStream(c) : c \in Configs}

\* ^ on two bytes
Xor(a, b) ==
    LET bit(i) == ((a \div (2 ^ i)) + (b \div (2 ^ i))) % 2
    IN  bit(0) + 2 * bit(1) + 4 * bit(2) + 8 * bit(3)
        + 16 * bit(4) + 32 * bit(5) + 64 * bit(6) + 128 * bit(7)

\* cache.rs:127-140  Md5Hasher::finish: the first eight bytes of the digest
\* xor the last eight, as a u64.
Finish(digest) == [i \in 1..8 |-> Xor(digest[i], digest[i + 8])]

\* The sixteen hexadecimal digits of a u64, the most significant first.
Nibbles(bytes) ==
    [i \in 1..16 |-> IF i % 2 = 1 THEN bytes[(i + 1) \div 2] \div 16
                     ELSE bytes[i \div 2] % 16]

HexDigit(n) ==
    <<"0", "1", "2", "3", "4", "5", "6", "7",
      "8", "9", "a", "b", "c", "d", "e", "f">>[n + 1]

RECURSIVE HexFrom(_, _)
HexFrom(nib, i) ==
    IF i > Len(nib) THEN "" ELSE HexDigit(nib[i]) \o HexFrom(nib, i + 1)

\* cache.rs:28  format!("{:x}", u64): lowercase hexadecimal with no leading
\* zero digit (one digit 0 for the number zero).
LowerHex(bytes) ==
    LET nib == Nibbles(bytes)
        first == IF \E i \in 1..16 : nib[i] # 0
                 THEN CHOOSE i \in 1..16 :
                        nib[i] # 0 /\ \A j \in 1..(i - 1) : nib[j] = 0
                 ELSE 16
    IN  HexFrom(nib, first)

\* cache.rs:26-29  the suffix of a Cache whose hasher finished with digest
Suffix(digest) == LowerHex(Finish(digest))

\* FileName that leaves the prefix out.
FileNameWithoutPrefix(prefix, suffix) == suffix \o ".json"

\* cache.rs:44  format!("{}-{}.json", prefix, self.suffix)
FileName(prefix, suffix) == prefix \o "-" \o suffix \o ".json"

\* A digest whose first eight bytes are hi and whose last eight are lo.
Digest(hi, lo) == [i \in 1..16 |-> IF i <= 8 THEN hi ELSE lo]

\* What MD5 may give for the streams of ConfigList.  MD5 itself is not
\* computed: it is some function from the bytes written to 16-byte digests,
\* the same throughout a behaviour.  The lists have the cases: five digests
\* that finish differently with sixteen digits; a first digest that finishes
\* with leading zero digits; a first and a last digest that differ and finish
\* alike.
DistinctDigests ==
    <<Digest(171, 0), Digest(18, 0), Digest(35, 0), Digest(52, 0), Digest(69, 0)>>
LeadingZeroDigests ==
    <<Digest(171, 162), Digest(18, 0), Digest(35, 0), Digest(52, 0), Digest(69, 0)>>
CollidingDigests ==
    <<Digest(171, 0), Digest(18, 0), Digest(35, 0), Digest(52, 0), Digest(0, 171)>>
DigestLists == {DistinctDigests, LeadingZeroDigests, CollidingDigests}

\* The function a list of digests stands for.
Md5From(digests) ==
    [s \in Streams |->
        digests[CHOOSE i \in DOMAIN ConfigList : HashStream(ConfigList[i]) = s]]

\* cache.rs:22-28  the suffix of each stream when MD5 is the function md5:
\* the stream is written to the hasher, the hasher finished and formatted.
Suffixes(md5) == [s \in Streams |-> Suffix(md5[s])]

-----------------------------------------------------------------------------
(* The cache directory: the state of one path is NotFound, Unreadable (any *)
(* read error whose kind is not NotFound) or a text.  A text is a sequence *)
(* of <<key, value>> pairs, the members of the JSON object in the file.    *)

NotFound == [kind |-> "NotFound"]
Unreadable == [kind |-> "Unreadable"]
Text(t) == [kind |-> "text", text |-> t]

Garbage == << <<"garbage", 0>> >>

\* The fields of the artifact types, in declaration order:
\* sso_oidc.rs:100-104 RegisterClientResponse, sso_oidc.rs:153-156
\* CreateTokenResponse, sso.rs:54-59 GetRoleCredentialsResponse.
FieldOrder(prefix) ==
    IF prefix = "client"
    THEN <<"client_id", "client_secret", "client_secret_expires_at">>
    ELSE IF prefix = "token"
    THEN <<"access_token", "expires_at">>
    ELSE <<"access_key_id", "secret_access_key", "session_token", "expires_at">>

Fields(prefix) == {FieldOrder(prefix)[i] : i \in DOMAIN FieldOrder(prefix)}

\* cache.rs:70-71  serde_json::to_string_pretty(&value)
ToStringPretty(prefix, value) ==
    [i \in DOMAIN FieldOrder(prefix) |->
        <<FieldOrder(prefix)[i], value[FieldOrder(prefix)[i]]>>]

Keys(text) == {text[i][1] : i \in DOMAIN text}
Member(text, k) == text[CHOOSE i \in DOMAIN text : text[i][1] = k][2]

\* FromStr that gives every field of T the value of the first member of the
\* object.
FromStrFirstMember(prefix, text) ==
    IF Fields(prefix) \subseteq Keys(text)
    THEN Ok([f \in Fields(prefix) |-> text[1][2]])
    ELSE Err("missing field")

\* cache.rs:49-50  serde_json::from_str::<T>(&content): every field of T
\* must be a member of the object; other members are ignored.
FromStr(prefix, text) ==
    IF Fields(prefix) \subseteq Keys(text)
    THEN Ok([f \in Fields(prefix) |-> Member(text, f)])
    ELSE Err("missing field")

\* ReadToString that reports every failed read as NotFound.
ReadToStringAllNotFound(fs, path) ==
    IF fs[path].kind = "text" THEN Ok(fs[path].text) ELSE Err("NotFound")

\* cache.rs:47  fs::read_to_string(&path)
ReadToString(fs, path) ==
    IF fs[path].kind = "text" THEN Ok(fs[path].text) ELSE Err(fs[path].kind)

\* CachePath that names a file even when no directory is set.
CachePathAlways(dir, suffix, prefix) == Some(FileName(prefix, suffix))

\* cache.rs:41-44  the path of a prefix: None when no directory is set.  There
\* is one directory, so the file name stands for dir.join(file name).
CachePath(dir, suffix, prefix) ==
    IF dir.some THEN Some(FileName(prefix, suffix)) ELSE None

\* impl Expiry: sso_oidc.rs:106-110, sso_oidc.rs:158-162, sso.rs:61-65
ExpiresAt(prefix, value) ==
    IF prefix = "client" THEN value.client_secret_expires_at ELSE value.expires_at

\* IsValid with the comparison turned round.
IsValidInverted(expires_at, t) == expires_at + CACHE_BUFFER < t

\* IsValid with the operands of the comparison exchanged.
IsValidSwapped(expires_at, t) == t + CACHE_BUFFER > expires_at

\* cache.rs:51-53  value.expires_at() + CACHE_BUFFER > Utc::now()
IsValid(expires_at, t) == expires_at + CACHE_BUFFER > t

\* cache.rs:82-100  enum Error<E> { Cache(String), Init(E) }
CacheError(msg, path) == [variant |-> "Cache", msg |-> <<msg, path>>]
InitError(e) == [variant |-> "Init", inner |-> e]

-----------------------------------------------------------------------------
(* The remote operations.  An answer of the SDK client is Ok(response),    *)
(* a response being a record that has a field exactly when the Option of   *)
(* the SDK's response type is Some, or Err(e) with e the SDK's error.      *)

\* Lifetimes the identity provider grants, in seconds.
Lifetimes == {1, CACHE_BUFFER + MaxNow + 1}
\* Poll intervals the identity provider asks for, in seconds.
Intervals == {0, 1}

ServiceError(name) == [service |-> name]
\* error.to_string() of an SDK error
ErrorToString(e) == <<"error", e.service>>

\* A verification_uri_complete text; it parses as a URL when it is well formed.
UriText(wellformed, user_code) == [wellformed |-> wellformed, user_code |-> user_code]
\* sso_oidc.rs:227  str::parse::<Url>
ParseUrl(s) == IF s.wellformed THEN Ok([url |-> s.user_code]) ELSE Err("relative URL without a base")

\* The answers with one required member missing.
OneMissing(full) == {Without(full, f) : f \in DOMAIN full}

RegisterClientAnswers(id, t) ==
    LET full(life) == [client_id |-> id, client_secret |-> id,
                       client_secret_expires_at |-> t + life]
    IN  {Ok(full(life)) : life \in Lifetimes}
        \cup {Ok(r) : r \in OneMissing(full(1))}
        \cup {Err(ServiceError("InternalServerException"))}

StartDeviceAuthorizationAnswers(id) ==
    LET full(iv, wf) == [device_code |-> id, user_code |-> id, interval |-> iv,
                         expires_in |-> 600,
                         verification_uri_complete |-> UriText(wf, id)]
    IN  {Ok(full(iv, TRUE)) : iv \in Intervals}
        \cup {Ok(full(1, FALSE))}
        \cup {Ok(r) : r \in OneMissing(full(1, TRUE))}
        \cup {Err(ServiceError("InvalidClientException"))}

CreateTokenAnswers(id) ==
    LET full(life) == [access_token |-> id, expires_in |-> life]
    IN  {Ok(full(life)) : life \in Lifetimes}
        \cup {Ok(r) : r \in OneMissing(full(1))}
        \cup {Err(ServiceError("AuthorizationPending")),
              Err(ServiceError("ExpiredToken")),
              Err(ServiceError("AccessDenied"))}

GetRoleCredentialsAnswers(id, t) ==
    LET creds(life) == [access_key_id |-> id, secret_access_key |-> id,
                        session_token |-> id, expiration |-> (t + life) * 1000]
    IN  {Ok([role_credentials |-> creds(life)]) : life \in Lifetimes}
        \cup {Ok([role_credentials |-> r]) : r \in OneMissing(creds(1))}
        \cup {Ok([request_id |-> id])}
        \cup {Err(ServiceError("UnauthorizedException"))}

\* sso_oidc.rs:112-133  TryFrom<rusoto RegisterClientResponse>
RegisterClientTryFrom(res) ==
    IF "client_id" \notin DOMAIN res
    THEN Err("invalid RegisterClient response: missing client_id")
    ELSE IF "client_secret" \notin DOMAIN res
    THEN Err("invalid RegisterClient response: missing client_secret")
    ELSE IF "client_secret_expires_at" \notin DOMAIN res
    THEN Err("invalid RegisterClient response: missing client_secret_expires_at")
    ELSE Ok([client_id |-> res.client_id, client_secret |-> res.client_secret,
             client_secret_expires_at |-> res.client_secret_expires_at])

\* StartDeviceAuthorizationTryFrom that takes a missing interval for none.
StartDeviceAuthorizationTryFromDefaultInterval(res) ==
    IF "device_code" \notin DOMAIN res
    THEN Err("invalid StartDeviceAuthorization response: missing device_code")
    ELSE IF "user_code" \notin DOMAIN res
    THEN Err("invalid StartDeviceAuthorization response: missing user_code")
    ELSE IF "verification_uri_complete" \notin DOMAIN res
    THEN Err("invalid StartDeviceAuthorization response: missing verification_uri_complete")
    ELSE IF ~ParseUrl(res.verification_uri_complete).ok
    THEN Err("invalid StartDeviceAuthorization response: verification_uri_complete is not a valid URL")
    ELSE Ok([device_code |-> res.device_code,
             interval |-> IF "interval" \in DOMAIN res THEN res.interval ELSE 0,
             user_code |-> res.user_code,
             verification_uri_complete |-> ParseUrl(res.verification_uri_complete).val])

\* sso_oidc.rs:201-236  TryFrom<rusoto StartDeviceAuthorizationResponse>
StartDeviceAuthorizationTryFrom(res) ==
    IF "device_code" \notin DOMAIN res
    THEN Err("invalid StartDeviceAuthorization response: missing device_code")
    ELSE IF "interval" \notin DOMAIN res
    THEN Err("invalid StartDeviceAuthorization response: missing interval")
    ELSE IF "user_code" \notin DOMAIN res
    THEN Err("invalid StartDeviceAuthorization response: missing user_code")
    ELSE IF "verification_uri_complete" \notin DOMAIN res
    THEN Err("invalid StartDeviceAuthorization response: missing verification_uri_complete")
    ELSE IF ~ParseUrl(res.verification_uri_complete).ok
    THEN Err("invalid StartDeviceAuthorization response: verification_uri_complete is not a valid URL")
    ELSE Ok([device_code |-> res.device_code, interval |-> res.interval,
             user_code |-> res.user_code,
             verification_uri_complete |-> ParseUrl(res.verification_uri_complete).val])

\* CreateTokenTryFrom that takes a missing expires_in for a token that expires
\* now.
CreateTokenTryFromDefaultExpiry(res, t) ==
    IF "access_token" \notin DOMAIN res
    THEN Err("invalid CreateToken response: missing access_token")
    ELSE Ok([access_token |-> res.access_token,
             expires_at |-> IF "expires_in" \in DOMAIN res THEN t + res.expires_in ELSE t])

\* sso_oidc.rs:164-184  TryFrom<rusoto CreateTokenResponse>; t is Utc::now()
CreateTokenTryFrom(res, t) ==
    IF "access_token" \notin DOMAIN res
    THEN Err("invalid CreateToken response: missing access_token")
    ELSE IF "expires_in" \notin DOMAIN res
    THEN Err("invalid CreateToken response: missing expires_in")
    ELSE Ok([access_token |-> res.access_token, expires_at |-> t + res.expires_in])

\* sso.rs:92  Utc.timestamp_millis(millis), in the whole seconds of this model
TimestampMillis(millis) == millis \div 1000

\* sso.rs:67-96  TryFrom<rusoto GetRoleCredentialsResponse>
GetRoleCredentialsTryFrom(res) ==
    IF "role_credentials" \notin DOMAIN res
    THEN Err("invalid GetRoleCredentials response: missing role_credentials")
    ELSE LET credentials == res.role_credentials IN
         IF "access_key_id" \notin DOMAIN credentials
         THEN Err("invalid GetRoleCredentials response: missing access_key_id")
         ELSE IF "secret_access_key" \notin DOMAIN credentials
         THEN Err("invalid GetRoleCredentials response: missing secret_access_key")
         ELSE IF "session_token" \notin DOMAIN credentials
         THEN Err("invalid GetRoleCredentials response: missing session_token")
         ELSE IF "expiration" \notin DOMAIN credentials
         THEN Err("invalid GetRoleCredentials response: missing expires_at")
         ELSE Ok([access_key_id |-> credentials.access_key_id,
                  secret_access_key |-> credentials.secret_access_key,
                  session_token |-> credentials.session_token,
                  expires_at |-> TimestampMillis(credentials.expiration)])

\* sso_oidc.rs:29-33  .map_err(|error| error.to_string()).and_then(TryInto::try_into)
RegisterClientResult(ans) ==
    IF ans.ok THEN RegisterClientTryFrom(ans.val) ELSE Err(ErrorToString(ans.err))

\* sso.rs:28-32  .map_err(|error| error.to_string()).and_then(TryInto::try_into)
GetRoleCredentialsResult(ans) ==
    IF ans.ok THEN GetRoleCredentialsTryFrom(ans.val) ELSE Err(ErrorToString(ans.err))

\* sso_oidc.rs:186-191  enum CreateTokenError<E>
CreateTokenApi(msg) == [variant |-> "Api", msg |-> msg]
CreateTokenVerificationPrompt(e) == [variant |-> "VerificationPrompt", inner |-> e]
CreateTokenVerificationPromptTimeout == [variant |-> "VerificationPromptTimeout"]

\* sso_oidc.rs:44-50  the start_device_authorization call of create_token
StartDeviceAuthorizationResult(ans) ==
    LET r == IF ans.ok THEN StartDeviceAuthorizationTryFrom(ans.val)
             ELSE Err(ErrorToString(ans.err))
    IN  IF r.ok THEN r ELSE Err(CreateTokenApi(r.err))

\* PollStep that takes AuthorizationPending for any other error.
PollStepPendingIsError(ans, t) ==
    IF ans.ok
    THEN LET r == CreateTokenTryFrom(ans.val, t)
         IN  [next |-> "break",
              result |-> IF r.ok THEN r ELSE Err(CreateTokenApi(r.err))]
    ELSE IF ans.err.service = "ExpiredToken"
    THEN [next |-> "break", result |-> Err(CreateTokenVerificationPromptTimeout)]
    ELSE [next |-> "break", result |-> Err(CreateTokenApi(ErrorToString(ans.err)))]

\* PollStep that takes ExpiredToken for any other error.
PollStepExpiredIsApi(ans, t) ==
    IF ans.ok
    THEN LET r == CreateTokenTryFrom(ans.val, t)
         IN  [next |-> "break",
              result |-> IF r.ok THEN r ELSE Err(CreateTokenApi(r.err))]
    ELSE IF ans.err.service = "AuthorizationPending"
    THEN [next |-> "sleep"]
    ELSE [next |-> "break", result |-> Err(CreateTokenApi(ErrorToString(ans.err)))]

\* PollStep that reports any other error without the message of the service.
PollStepDropsMessage(ans, t) ==
    IF ans.ok
    THEN LET r == CreateTokenTryFrom(ans.val, t)
         IN  [next |-> "break",
              result |-> IF r.ok THEN r ELSE Err(CreateTokenApi(r.err))]
    ELSE IF ans.err.service = "AuthorizationPending"
    THEN [next |-> "sleep"]
    ELSE IF ans.err.service = "ExpiredToken"
    THEN [next |-> "break", result |-> Err(CreateTokenVerificationPromptTimeout)]
    ELSE [next |-> "break", result |-> Err(CreateTokenApi(<<"error">>))]

\* sso_oidc.rs:68-79  what one answer of create_token does to the polling loop:
\* "break" ends the loop with a result, "sleep" goes round again.
PollStep(ans, t) ==
    IF ans.ok
    THEN LET r == CreateTokenTryFrom(ans.val, t)
         IN  [next |-> "break",
              result |-> IF r.ok THEN r ELSE Err(CreateTokenApi(r.err))]
    ELSE IF ans.err.service = "AuthorizationPending"
    THEN [next |-> "sleep"]
    ELSE IF ans.err.service = "ExpiredToken"
    THEN [next |-> "break", result |-> Err(CreateTokenVerificationPromptTimeout)]
    ELSE [next |-> "break", result |-> Err(CreateTokenApi(ErrorToString(ans.err)))]

-----------------------------------------------------------------------------
(* The caller-facing errors *)

\* flow.rs:224-244  enum SsoFlowError<P>
FlowApi(msg) == [variant |-> "Api", msg |-> msg]
FlowCache(msg) == [variant |-> "Cache", msg |-> msg]
FlowVerificationPrompt(e) == [variant |-> "VerificationPrompt", inner |-> e]
FlowVerificationPromptTimeout == [variant |-> "VerificationPromptTimeout"]

\* flow.rs:110-113  the map_err of the client step
MapClientError(error) ==
    IF error.variant = "Init" THEN FlowApi(error.inner) ELSE FlowCache(error.msg)

\* flow.rs:128-139  the map_err of the token step
MapTokenError(error) ==
    IF error.variant = "Init"
    THEN IF error.inner.variant = "Api" THEN FlowApi(error.inner.msg)
         ELSE IF error.inner.variant = "VerificationPrompt"
         THEN FlowVerificationPrompt(error.inner.inner)
         ELSE FlowVerificationPromptTimeout
    ELSE FlowCache(error.msg)

\* MapCredentialsError with the two arms exchanged.
MapCredentialsErrorSwapped(error) ==
    IF error.variant = "Init" THEN FlowCache(error.inner) ELSE FlowApi(error.msg)

\* flow.rs:152-155  the map_err of the credentials step
MapCredentialsError(error) ==
    IF error.variant = "Init" THEN FlowApi(error.inner) ELSE FlowCache(error.msg)

MapStepError(prefix, error) ==
    IF prefix = "client" THEN MapClientError(error)
    ELSE IF prefix = "token" THEN MapTokenError(error)
    ELSE MapCredentialsError(error)

\* lib.rs:129-133  impl From<SsoProfileError> for SsoError
FromProfileError(error) == [variant |-> "Config", inner |-> error]
\* FromFlowError that wraps the flow error as a configuration error.
FromFlowErrorAsConfig(error) == [variant |-> "Config", inner |-> error]
\* lib.rs:135-139  impl From<SsoFlowError<P>> for SsoError
FromFlowError(error) == [variant |-> "Flow", inner |-> error]

\* NotLoaded that reports the failed load as a provider error.
NotLoadedAsProviderError(error) == [variant |-> "ProviderError", inner |-> error]

\* aws_sdk.rs:86  CredentialsError::not_loaded
NotLoaded(error) == [variant |-> "CredentialsNotLoaded", inner |-> error]
\* aws_sdk.rs:92  CredentialsError::provider_error
ProviderError(error) == [variant |-> "ProviderError", inner |-> error]

\* lib.rs:95 `?` on SsoFlow::new, aws_sdk.rs:86 map_err on build
LoadFailed(how, error) ==
    IF how = "authenticate" THEN FromProfileError(error) ELSE NotLoaded(error)

\* lib.rs:97 `?` on authenticate, aws_sdk.rs:92 map_err on authenticate
FlowFailed(how, error) ==
    IF how = "authenticate" THEN FromFlowError(error) ELSE ProviderError(error)

\* aws_sdk.rs:121-131  impl From<SessionCredentials> for Credentials
CredentialsFrom(creds) ==
    [access_key_id |-> creds.access_key_id,
     secret_access_key |-> creds.secret_access_key,
     session_token |-> Some(creds.session_token),
     expires_after |-> Some(creds.expires_at),
     provider_name |-> "SsoFlow"]

\* lib.rs:98 Ok(credentials), aws_sdk.rs:91-94 .map(Into::into)
Succeeded(how, creds) ==
    IF how = "authenticate" THEN creds ELSE CredentialsFrom(creds)

\* credentials.rs:41-50  impl From<GetRoleCredentialsResponse> for SessionCredentials
SessionCredentialsFrom(res) ==
    [access_key_id |-> res.access_key_id, secret_access_key |-> res.secret_access_key,
     session_token |-> res.session_token, expires_at |-> res.expires_at]

-----------------------------------------------------------------------------
(* The shared configuration file: profile.rs.  A file is a sequence of      *)
(* lines.  A line is a comment, a header `[profile name]` or `[name]`, or   *)
(* any other text, kept as the pieces line.splitn(2, '=') cuts it into,     *)
(* each with its blanks trimmed (a piece may be the empty text).            *)

\* A file has at most MaxLines lines.
MaxLines == 5

\* profile.rs:172-175  a line the loop skips: blank, or beginning with #
CommentLine == [kind |-> "comment"]
HeaderLine(open, name) == [kind |-> "header", open |-> open, name |-> name]
TextLine(pieces) == [kind |-> "text", pieces |-> pieces]

\* The lines files are made of: the headers of two profiles, one in each
\* form; the four keys with the values of TheConfig, the region under its
\* spelling without hyphens; a key with no value; a region that is none; a
\* comment.
Lines ==
    { HeaderLine("[profile ", "work"), HeaderLine("[", "default"),
      TextLine(<<"sso_region", "euwest1">>),
      TextLine(<<"sso_start_url", TheConfig.start_url>>),
      TextLine(<<"sso_account_id", TheConfig.account_id>>),
      TextLine(<<"sso_role_name", TheConfig.role_name>>),
      TextLine(<<"sso_role_name", "">>),
      TextLine(<<"sso_region", "mars-1">>),
      CommentLine }

\* profile.rs:241-254  what read_file may answer
ConfigFiles ==
    {Ok(lines) : lines \in UNION {[1..n -> Lines] : n \in 0..MaxLines}}
        \cup {Err("not a file")}

\* The profiles a ProfileSource may name.
Profiles == {"work", "default"}

\* profile.rs:57-62, 109-131  the path of the configuration file
CONFIG_PATH == ".aws/config"

\* A complete file: its profile work is TheConfig.
WorkFile ==
    << HeaderLine("[profile ", "work"),
       TextLine(<<"sso_region", TheConfig.region>>),
       TextLine(<<"sso_start_url", TheConfig.start_url>>),
       TextLine(<<"sso_account_id", TheConfig.account_id>>),
       TextLine(<<"sso_role_name", TheConfig.role_name>>) >>

\* profile.rs:93-99  SsoProfileError::new(message)
SsoProfileError(message) == message

\* region.rs:22-28  Region::from_str: the parse of rusoto_core::Region, which
\* knows each region under its name and under its name without hyphens.
RegionFromStr(s) ==
    IF s \in {"eu-west-1", "euwest1"} THEN Ok("eu-west-1")
    ELSE IF s \in {"us-east-1", "useast1"} THEN Ok("us-east-1")
    ELSE Err("Not a valid AWS region: " \o s)

\* profile.rs:150-155  parse_profile_name
ParseProfileName(line) == IF line.kind = "header" THEN Some(line.name) ELSE None

\* The n-th item of an iterator: Some, or None past its end.
NextOf(seq, n) == IF n <= Len(seq) THEN Some(seq[n]) ELSE None

\* profile.rs:183-186  the pieces of the line that are not empty
KeyValue(line) == SelectSeq(line.pieces, LAMBDA piece : piece # "")

KEYS == <<"sso_region", "sso_start_url", "sso_account_id", "sso_role_name">>

\* profile.rs:165-169  the state of the loop before the first line
NothingRead ==
    [in_profile |-> FALSE, sso_region |-> None, sso_start_url |-> None,
     sso_account_id |-> None, sso_role_name |-> None]

\* profile.rs:187-195  match [kv.next(), kv.next()]
Assign(st, kv) ==
    LET key == NextOf(kv, 1)
        value == NextOf(kv, 2)
    IN  IF key.some /\ value.some /\ (\E i \in DOMAIN KEYS : KEYS[i] = key.val)
        THEN [st EXCEPT ![key.val] = Some(value.val)]
        ELSE st

\* The loop of parse_profile with key lines read in whatever section they are.
RECURSIVE ParseLinesAnySection(_, _, _, _)
ParseLinesAnySection(lines, i, profile, st) ==
    IF i > Len(lines) THEN st
    ELSE IF lines[i].kind = "comment"
    THEN ParseLinesAnySection(lines, i + 1, profile, st)
    ELSE IF ParseProfileName(lines[i]).some
    THEN ParseLinesAnySection(lines, i + 1, profile,
             [st EXCEPT !.in_profile = @ \/ ParseProfileName(lines[i]).val = profile])
    ELSE ParseLinesAnySection(lines, i + 1, profile, Assign(st, KeyValue(lines[i])))

\* The loop of parse_profile that goes on at the header after the profile's
\* section: a later section of the profile is read as well.
RECURSIVE ParseLinesEverySectionOfProfile(_, _, _, _)
ParseLinesEverySectionOfProfile(lines, i, profile, st) ==
    IF i > Len(lines) THEN st
    ELSE IF lines[i].kind = "comment"
    THEN ParseLinesEverySectionOfProfile(lines, i + 1, profile, st)
    ELSE IF ParseProfileName(lines[i]).some
    THEN ParseLinesEverySectionOfProfile(lines, i + 1, profile,
             [st EXCEPT !.in_profile = ParseProfileName(lines[i]).val = profile])
    ELSE IF st.in_profile
    THEN ParseLinesEverySectionOfProfile(lines, i + 1, profile,
                                         Assign(st, KeyValue(lines[i])))
    ELSE ParseLinesEverySectionOfProfile(lines, i + 1, profile, st)

\* profile.rs:171-197  the loop of parse_profile from line i on: comments are
\* skipped, a header ends the loop when the profile's section is being read
\* and else says whether its section is the profile's, and any other line is
\* read only inside the profile's section.
RECURSIVE ParseLines(_, _, _, _)
ParseLines(lines, i, profile, st) ==
    IF i > Len(lines) THEN st
    ELSE IF lines[i].kind = "comment"
    THEN ParseLines(lines, i + 1, profile, st)
    ELSE IF ParseProfileName(lines[i]).some
    THEN IF st.in_profile
         THEN st
         ELSE ParseLines(lines, i + 1, profile,
                  [st EXCEPT !.in_profile = ParseProfileName(lines[i]).val = profile])
    ELSE IF st.in_profile
    THEN ParseLines(lines, i + 1, profile, Assign(st, KeyValue(lines[i])))
    ELSE ParseLines(lines, i + 1, profile, st)

\* Vec::join
RECURSIVE Join(_, _)
Join(texts, sep) ==
    IF texts = <<>> THEN ""
    ELSE IF Len(texts) = 1 THEN texts[1]
    ELSE texts[1] \o sep \o Join(Tail(texts), sep)

\* Missing that names the first missing key only.
MissingFirstOnly(st) ==
    LET all == SelectSeq(KEYS, LAMBDA key : ~st[key].some)
    IN  IF all = <<>> THEN <<>> ELSE <<all[1]>>

\* profile.rs:225-231  the keys that have no value, in the order of KEYS
Missing(st) == SelectSeq(KEYS, LAMBDA key : ~st[key].some)

\* profile.rs:157-239  parse_profile(path, profile) when read_file(path)
\* answers `file`: Ok(lines) or Err(error)
ParseProfile(path, file, profile) ==
    IF ~file.ok
    THEN Err(SsoProfileError("unable to read config file " \o path \o ": "
                 \o file.err))
    ELSE LET st == ParseLines(file.val, 1, profile, NothingRead) IN
         IF ~st.in_profile
         THEN Err(SsoProfileError("profile " \o profile
                      \o " is not defined in in config file " \o path))
         ELSE IF Missing(st) = <<>>
         THEN LET region == RegionFromStr(st.sso_region.val) IN
              IF region.ok
              THEN Ok([region |-> region.val, start_url |-> st.sso_start_url.val,
                       account_id |-> st.sso_account_id.val,
                       role_name |-> st.sso_role_name.val])
              ELSE Err(SsoProfileError("error in profile " \o profile
                           \o " in config file " \o path \o ": " \o region.err))
         ELSE Err(SsoProfileError("incomplete SSO configuration in profile "
                      \o profile \o "; missing: " \o Join(Missing(st), ", ")))

\* profile.rs:79-86  ProfileSource::load with the path and the profile given
\* (or taken from the environment)
ProfileSourceLoad(source) == ParseProfile(source.path, source.file, source.profile)

-----------------------------------------------------------------------------
(* ChainProvider: rusoto.rs:76-132.  A chain is its providers in push       *)
(* order; a call of credentials() walks them.                               *)

\* A chain has at most MaxProviders providers.
MaxProviders == 3

\* The providers pushed to a chain: any ProvideAwsCredentials.
ProviderNames == {"environment", "sso"}

\* What a provider's credentials() may answer.
ProviderAnswers(name) ==
    {Ok([access_key_id |-> name]), Err(name \o ": no credentials"),
     Err(name \o ": expired")}

\* rusoto.rs:87-89  ChainProvider::new()
ChainNew == <<>>

\* rusoto.rs:95-101  ChainProvider::push
ChainPush(providers, provider) == Append(providers, provider)

\* The chains built with new() and up to n calls of push.
RECURSIVE ChainsUpTo(_)
ChainsUpTo(n) ==
    IF n = 0 THEN {ChainNew}
    ELSE ChainsUpTo(n - 1)
         \cup {ChainPush(ps, name) : ps \in ChainsUpTo(n - 1), name \in ProviderNames}

\* A chain on which credentials() is not running.
ChainIdle(providers) ==
    [providers |-> providers, at |-> 0, errors |-> <<>>, invoked |-> <<>>,
     result |-> None]

\* rusoto.rs:126-130  the error of a chain all of whose providers failed
ChainError(errors) ==
    "Couldn't find AWS credentials through any configured provider; all errors:\n\n"
        \o Join([i \in DOMAIN errors |-> "- " \o errors[i]], "\n")

\* ChainAnswered that goes on to the next provider after a success.
ChainAnsweredKeepsGoing(c, answer) ==
    [c EXCEPT !.invoked = Append(@, [index |-> c.at, answer |-> answer]),
              !.at = @ + 1,
              !.errors = IF answer.ok THEN @ ELSE Append(@, answer.err),
              !.result = IF answer.ok THEN Some(answer) ELSE @]

\* rusoto.rs:120-123  the provider at c.at answered: Ok returns, Err is pushed
\* to errors and the loop goes on.
ChainAnswered(c, answer) ==
    IF answer.ok
    THEN [c EXCEPT !.invoked = Append(@, [index |-> c.at, answer |-> answer]),
                   !.at = 0,
                   !.result = Some(answer)]
    ELSE [c EXCEPT !.invoked = Append(@, [index |-> c.at, answer |-> answer]),
                   !.at = @ + 1,
                   !.errors = Append(@, answer.err)]

\* rusoto.rs:126-130  the loop ended without a return
ChainExhausted(c) ==
    [c EXCEPT !.at = 0, !.result = Some(Err(ChainError(c.errors)))]

-----------------------------------------------------------------------------
(* The state *)

VARIABLES
    now,        \* Utc::now(), in seconds
    cacheDir,   \* Cache.dir: None or Some(directory)
    files,      \* the state of each path of the cache directory
    issued,     \* how many answers the identity provider has given a fresh id
    pc,         \* where each process stands in authenticate
    step,       \* the prefix of the get_or_init a process is in
    config,     \* SsoFlow.config of the call in progress
    client,     \* flow.rs:102  the client registration of the call in progress
    token,      \* flow.rs:115  the bearer token of the call in progress
    computed,   \* cache.rs:67  the value init() produced, not yet written
    challenge,  \* sso_oidc.rs:44  the StartDeviceAuthorizationResponse
    trace,      \* what the call in progress (or the last call) has done
    result,     \* what the last finished call returned; None during a call
    prevOk,     \* the credentials of the call before, if it returned some
    startFiles, \* the cache directory as it was when the call began
    entry,      \* the entry point of the call: authenticate or provide_credentials
    suffixOf,   \* cache.rs:26-29  the suffix Cache::new computes from each
                \* stream of bytes its hasher may be given
    awsConfig,  \* profile.rs:79-86  what a ProfileSource loads from: the path
                \* and the lines of the configuration file, and the profile
    chain       \* rusoto.rs:77-79, 117-131  a ChainProvider and where its
                \* credentials() stands

vars == <<now, cacheDir, files, issued, pc, step, config, client, token,
          computed, challenge, trace, result, prevOk, startFiles, entry, suffixOf,
                   awsConfig, chain>>

\* An artifact of the given kind with payload id and expiry exp.
Artifact(prefix, id, exp) ==
    IF prefix = "client"
    THEN [client_id |-> id, client_secret |-> id, client_secret_expires_at |-> exp]
    ELSE IF prefix = "token"
    THEN [access_token |-> id, expires_at |-> exp]
    ELSE [access_key_id |-> id, secret_access_key |-> id, session_token |-> id,
          expires_at |-> exp]

\* The expiry times of artifacts that earlier runs left in the directory.
InitExpiries ==
    {0 - CACHE_BUFFER, 1 - CACHE_BUFFER, CACHE_BUFFER + 1}

\* What a path may hold when a behaviour starts.
InitFiles(prefix) ==
    {NotFound, Unreadable, Text(Garbage)}
    \cup {Text(ToStringPretty(prefix, Artifact(prefix, 0, e))) : e \in InitExpiries}

\* One event of a trace: what happened, in which step, when, with what.
Ev(name, prefix, data) == [ev |-> name, prefix |-> prefix, data |-> data]

\* Cache::new with a hasher whose state is not the same from one flow to the
\* next: once an artifact has been issued the suffix is another one.
CacheNewSeeded(c) ==
    IF issued = 0 THEN suffixOf[HashStream(c)] ELSE suffixOf[HashStream(OtherRole)]

\* cache.rs:21-29  Cache::new(dir, &config).suffix
CacheNew(c) == suffixOf[HashStream(c)]

\* The file names of the caches of all configurations.
AllPaths == {FileName(pre, CacheNew(c)) : pre \in Prefixes, c \in Configs}

\* The file of each prefix in the cache of a configuration.
FilesOf(fs, c) == [pre \in Prefixes |-> fs[FileName(pre, CacheNew(c))]]

\* A behaviour starts with what earlier runs with TheConfig left in the cache
\* directory, and with no call in progress.
Start ==
    /\ now = 0
    /\ issued = 0
    /\ cacheDir \in {None, Some("cache")}
    /\ \E left \in [Prefixes -> UNION {InitFiles(pre) : pre \in Prefixes}] :
         /\ \A pre \in Prefixes : left[pre] \in InitFiles(pre)
         /\ ~cacheDir.some => \A pre \in Prefixes : left[pre] = NotFound
         /\ files = [n \in AllPaths |->
                        IF \E pre \in Prefixes : n = FileName(pre, CacheNew(TheConfig))
                        THEN left[CHOOSE pre \in Prefixes :
                                    n = FileName(pre, CacheNew(TheConfig))]
                        ELSE NotFound]
    /\ pc = [p \in Procs |-> "idle"]
    /\ step = [p \in Procs |-> "client"]
    /\ config = [p \in Procs |-> None]
    /\ client = [p \in Procs |-> None]
    /\ token = [p \in Procs |-> None]
    /\ computed = [p \in Procs |-> None]
    /\ challenge = [p \in Procs |-> None]
    /\ trace = [p \in Procs |-> <<>>]
    /\ result = [p \in Procs |-> None]
    /\ prevOk = [p \in Procs |-> None]
    /\ startFiles = [p \in Procs |-> files]
    /\ entry = [p \in Procs |-> "authenticate"]

Init ==
    /\ suffixOf = Suffixes(Md5From(DistinctDigests))
    /\ awsConfig = [path |-> CONFIG_PATH, file |-> Ok(WorkFile), profile |-> "work"]
    /\ chain = ChainIdle(ChainNew)
    /\ Start

-----------------------------------------------------------------------------
(* How a step of authenticate ends *)

Log(p, events) == trace' = [trace EXCEPT ![p] = @ \o events]

\* The process moves on inside the same get_or_init.
Goto(p, label) ==
    /\ pc' = [pc EXCEPT ![p] = label]
    /\ UNCHANGED <<step, client, token, result, prevOk>>

\* lib.rs:94-98, aws_sdk.rs:88-94  the call returns res to its caller.
Return(p, res) ==
    /\ result' = [result EXCEPT ![p] = Some(res)]
    /\ pc' = [pc EXCEPT ![p] = "idle"]
    /\ UNCHANGED <<step, client, token, prevOk>>

\* flow.rs:102-157  get_or_init of the current step returned Ok(value): the
\* next step begins, or authenticate returns Ok(credentials.into()).
StepOk(p, value) ==
    IF step[p] = "client"
    THEN /\ client' = [client EXCEPT ![p] = Some(value)]
         /\ step' = [step EXCEPT ![p] = "token"]
         /\ pc' = [pc EXCEPT ![p] = "lookup"]
         /\ UNCHANGED <<token, result, prevOk>>
    ELSE IF step[p] = "token"
    THEN /\ token' = [token EXCEPT ![p] = Some(value)]
         /\ step' = [step EXCEPT ![p] = "credentials"]
         /\ pc' = [pc EXCEPT ![p] = "lookup"]
         /\ UNCHANGED <<client, result, prevOk>>
    ELSE Return(p, Ok(Succeeded(entry[p], SessionCredentialsFrom(value))))

\* StepErr that notes the failure of the client step and goes on to the token
\* step.
StepErrGoesOn(p, error) ==
    IF step[p] = "client"
    THEN /\ result' = [result EXCEPT ![p] =
                           Some(Err(FlowFailed(entry[p], MapStepError(step[p], error))))]
         /\ step' = [step EXCEPT ![p] = "token"]
         /\ pc' = [pc EXCEPT ![p] = "lookup"]
         /\ UNCHANGED <<client, token, prevOk>>
    ELSE Return(p, Err(FlowFailed(entry[p], MapStepError(step[p], error))))

\* StepErr that, when the client step or the token step has failed, turns to
\* the cached credentials.
StepErrTriesCredentials(p, error) ==
    IF step[p] # "credentials"
    THEN /\ step' = [step EXCEPT ![p] = "credentials"]
         /\ pc' = [pc EXCEPT ![p] = "lookup"]
         /\ UNCHANGED <<client, token, result, prevOk>>
    ELSE Return(p, Err(FlowFailed(entry[p], MapStepError(step[p], error))))

\* flow.rs:110-113,128-139,152-155 and lib.rs:97, aws_sdk.rs:92  get_or_init
\* of the current step returned Err(error): `?` ends authenticate with the
\* mapped error.
StepErr(p, error) ==
    Return(p, Err(FlowFailed(entry[p], MapStepError(step[p], error))))

-----------------------------------------------------------------------------
(* Cache::get_or_init, cache.rs:31-80 *)

\* Lookup that takes a file it cannot parse for a miss.
LookupIgnoresCorrupt(dir, suffix, fs, prefix, t) ==
    LET path == CachePath(dir, suffix, prefix) IN
    IF ~path.some THEN [next |-> "init"]
    ELSE LET read == ReadToString(fs, path.val) IN
         IF read.ok
         THEN LET parsed == FromStr(prefix, read.val) IN
              IF parsed.ok /\ IsValid(ExpiresAt(prefix, parsed.val), t)
              THEN [next |-> "return", value |-> parsed.val]
              ELSE [next |-> "init"]
         ELSE IF read.err # "NotFound"
         THEN [next |-> "fail", error |-> CacheError("failed to read", path.val)]
         ELSE [next |-> "init"]

\* cache.rs:41-65  the part before init(): return the cached value, fail, or
\* go on to init().  t is Utc::now().
Lookup(dir, suffix, fs, prefix, t) ==
    LET path == CachePath(dir, suffix, prefix) IN
    IF ~path.some THEN [next |-> "init"]
    ELSE LET read == ReadToString(fs, path.val) IN
         IF read.ok
         THEN LET parsed == FromStr(prefix, read.val) IN
              IF ~parsed.ok
              THEN [next |-> "fail", error |-> CacheError("corrupt", path.val)]
              ELSE IF IsValid(ExpiresAt(prefix, parsed.val), t)
              THEN [next |-> "return", value |-> parsed.val]
              ELSE [next |-> "init"]
         ELSE IF read.err # "NotFound"
         THEN [next |-> "fail", error |-> CacheError("failed to read", path.val)]
         ELSE [next |-> "init"]

\* Written that leaves only the first member of the object in the file.
WrittenTruncated(prefix, value) == Text(SubSeq(ToStringPretty(prefix, value), 1, 1))

\* cache.rs:69-76  the file a successful write leaves at the path
Written(prefix, value) == Text(ToStringPretty(prefix, value))

\* lib.rs:91-95, aws_sdk.rs:81-86, flow.rs:72-77, builder.rs:134-150  a call
\* begins at the entry point `how`: the configuration source, which answers
\* one of `outcomes`, is loaded and the flow is built.
Call(p, how, outcomes) ==
    /\ pc[p] = "idle"
    /\ entry' = [entry EXCEPT ![p] = how]
    /\ prevOk' = [prevOk EXCEPT ![p] =
                      IF result[p].some /\ result[p].val.ok
                      THEN Some(result[p].val.val) ELSE None]
    /\ startFiles' = [startFiles EXCEPT ![p] = files]
    /\ client' = [client EXCEPT ![p] = None]
    /\ token' = [token EXCEPT ![p] = None]
    /\ computed' = [computed EXCEPT ![p] = None]
    /\ challenge' = [challenge EXCEPT ![p] = None]
    /\ \E loaded \in outcomes :
         /\ trace' = [trace EXCEPT ![p] = <<Ev("load", "config", loaded)>>]
         /\ IF loaded.ok
            THEN /\ config' = [config EXCEPT ![p] = Some(loaded.val)]
                 /\ step' = [step EXCEPT ![p] = "client"]
                 /\ pc' = [pc EXCEPT ![p] = "lookup"]
                 /\ result' = [result EXCEPT ![p] = None]
            ELSE /\ config' = [config EXCEPT ![p] = None]
                 /\ result' = [result EXCEPT ![p] =
                                   Some(Err(LoadFailed(how, loaded.err)))]
                 /\ UNCHANGED <<pc, step>>
    /\ UNCHANGED <<now, cacheDir, files, issued, suffixOf,
                   awsConfig, chain>>

\* lib.rs:91-99  the top-level authenticate
Authenticate(p) == Call(p, "authenticate", LoadOutcomes)

\* aws_sdk.rs:77-96  <SsoFlowBuilder as ProvideCredentials>::provide_credentials
ProvideCredentials(p) == Call(p, "provide_credentials", LoadOutcomes)

\* lib.rs:91-95, profile.rs:79-86  authenticate(ProfileSource, ...) as far as
\* the flow is built: the configuration is loaded from the profile.
AuthenticateProfile(p) == Call(p, "authenticate", {ProfileSourceLoad(awsConfig)})

\* builder.rs:95-110, 134-150, 195-203  SsoFlow::builder().config(c)...build()
\* and authenticate: the configuration is given, its load cannot fail.
AuthenticateWith(p) == Call(p, "authenticate", {Ok(c) : c \in Configs})

\* CacheLookup that removes the file of an entry it does not honour.
CacheLookupRemovesStale(p) ==
    /\ pc[p] = "lookup"
    /\ LET prefix == step[p]
           suffix == CacheNew(config[p].val)
           path == CachePath(cacheDir, suffix, prefix)
           found == Lookup(cacheDir, suffix, files, prefix, now)
           reads == IF path.some
                    THEN <<Ev("read", prefix, [at |-> now, path |-> path.val,
                                               file |-> files[path.val]])>>
                    ELSE <<>>
       IN  IF found.next = "return"
           THEN /\ StepOk(p, found.value)
                /\ Log(p, reads \o <<Ev("return", prefix, found.value)>>)
           ELSE IF found.next = "fail"
           THEN /\ StepErr(p, found.error)
                /\ Log(p, reads)
           ELSE /\ Goto(p, "init")
                /\ Log(p, reads)
    /\ files' = LET path == CachePath(cacheDir, CacheNew(config[p].val), step[p])
                     found == Lookup(cacheDir, CacheNew(config[p].val), files, step[p], now)
                 IN  IF path.some /\ found.next = "init"
                     THEN [files EXCEPT ![path.val] = NotFound]
                     ELSE files
    /\ UNCHANGED <<now, cacheDir, issued, config, computed, challenge,
                   startFiles, entry, suffixOf,
                   awsConfig, chain>>

\* CacheLookup that empties the file it could not read or parse.
CacheLookupTruncatesFailed(p) ==
    /\ pc[p] = "lookup"
    /\ LET prefix == step[p]
           suffix == CacheNew(config[p].val)
           path == CachePath(cacheDir, suffix, prefix)
           found == Lookup(cacheDir, suffix, files, prefix, now)
           reads == IF path.some
                    THEN <<Ev("read", prefix, [at |-> now, path |-> path.val,
                                               file |-> files[path.val]])>>
                    ELSE <<>>
       IN  IF found.next = "return"
           THEN /\ StepOk(p, found.value)
                /\ Log(p, reads \o <<Ev("return", prefix, found.value)>>)
                /\ UNCHANGED files
           ELSE IF found.next = "fail"
           THEN /\ StepErr(p, found.error)
                /\ Log(p, reads)
                /\ files' = [files EXCEPT ![path.val] = Text(<<>>)]
           ELSE /\ Goto(p, "init")
                /\ Log(p, reads)
                /\ UNCHANGED files
    /\ UNCHANGED <<now, cacheDir, issued, config, computed, challenge,
                   startFiles, entry, suffixOf,
                   awsConfig, chain>>

\* cache.rs:41-65  get_or_init reads the cache file of the current step.
CacheLookup(p) ==
    /\ pc[p] = "lookup"
    /\ LET prefix == step[p]
           suffix == CacheNew(config[p].val)
           path == CachePath(cacheDir, suffix, prefix)
           found == Lookup(cacheDir, suffix, files, prefix, now)
           reads == IF path.some
                    THEN <<Ev("read", prefix, [at |-> now, path |-> path.val,
                                               file |-> files[path.val]])>>
                    ELSE <<>>
       IN  IF found.next = "return"
           THEN /\ StepOk(p, found.value)
                /\ Log(p, reads \o <<Ev("return", prefix, found.value)>>)
           ELSE IF found.next = "fail"
           THEN /\ StepErr(p, found.error)
                /\ Log(p, reads)
           ELSE /\ Goto(p, "init")
                /\ Log(p, reads)
    /\ UNCHANGED <<now, cacheDir, files, issued, config, computed, challenge,
                   startFiles, entry, suffixOf,
                   awsConfig, chain>>

\* flow.rs:104-108, sso_oidc.rs:25-34  init() of the client step
RegisterClient(p) ==
    /\ pc[p] = "init"
    /\ step[p] = "client"
    /\ \E ans \in RegisterClientAnswers(issued + 1, now) :
         LET res == RegisterClientResult(ans)
             request == [client_name |-> CLIENT_NAME]
         IN  /\ ans.ok => issued < MaxIssued
             /\ issued' = IF ans.ok THEN issued + 1 ELSE issued
             /\ Log(p, <<Ev("RegisterClient", "client",
                            [request |-> request, answer |-> ans])>>)
             /\ IF res.ok
                THEN /\ computed' = [computed EXCEPT ![p] = Some(res.val)]
                     /\ Goto(p, "store")
                ELSE /\ UNCHANGED computed
                     /\ StepErr(p, InitError(res.err))
    /\ UNCHANGED <<now, cacheDir, files, config, challenge, startFiles, entry, suffixOf,
                   awsConfig, chain>>

\* flow.rs:117-126, sso_oidc.rs:41-50  init() of the token step: create_token
\* starts the device authorization.
StartDeviceAuthorization(p) ==
    /\ pc[p] = "init"
    /\ step[p] = "token"
    /\ \E ans \in StartDeviceAuthorizationAnswers(issued + 1) :
         LET res == StartDeviceAuthorizationResult(ans)
             request == [client_id |-> client[p].val.client_id,
                         client_secret |-> client[p].val.client_secret,
                         start_url |-> config[p].val.start_url]
         IN  /\ ans.ok => issued < MaxIssued
             /\ issued' = IF ans.ok THEN issued + 1 ELSE issued
             /\ Log(p, <<Ev("StartDeviceAuthorization", "token",
                            [request |-> request, answer |-> ans])>>)
             /\ IF res.ok
                THEN /\ challenge' = [challenge EXCEPT ![p] = Some(res.val)]
                     /\ Goto(p, "prompt")
                ELSE /\ UNCHANGED challenge
                     /\ StepErr(p, InitError(res.err))
    /\ UNCHANGED <<now, cacheDir, files, config, computed, startFiles, entry, suffixOf,
                   awsConfig, chain>>

\* What the caller's verification prompt can answer.
PromptOutcomes == {Ok("shown"), Err("NonInteractive"), Err("BrowserFailed")}

\* PromptResult that reports a failed prompt as an API error.
PromptResultAsApi(outcome) ==
    IF outcome.ok THEN outcome ELSE Err(CreateTokenApi(outcome.err))

\* PromptResult that goes on to poll whatever the prompt answered.
PromptResultIgnoresFailure(outcome) ==
    IF outcome.ok THEN outcome ELSE Ok("shown")

\* sso_oidc.rs:52-55  the outcome of prompt.prompt(url).await
PromptResult(outcome) ==
    IF outcome.ok THEN outcome ELSE Err(CreateTokenVerificationPrompt(outcome.err))

\* sso_oidc.rs:52-55  create_token awaits the verification prompt.
Prompt(p) ==
    /\ pc[p] = "prompt"
    /\ \E outcome \in PromptOutcomes :
         LET res == PromptResult(outcome)
         IN  /\ Log(p, <<Ev("prompt", "token",
                            [url |-> challenge[p].val.verification_uri_complete,
                             outcome |-> outcome])>>)
             /\ IF res.ok
                THEN Goto(p, "poll")
                ELSE StepErr(p, InitError(res.err))
    /\ UNCHANGED <<now, cacheDir, files, issued, config, computed, challenge,
                   startFiles, entry, suffixOf,
                   awsConfig, chain>>

\* How many CreateToken calls of a trace were answered AuthorizationPending.
Pendings(tr) ==
    Cardinality({i \in DOMAIN tr :
        /\ tr[i].ev = "CreateToken"
        /\ ~tr[i].data.answer.ok
        /\ tr[i].data.answer.err.service = "AuthorizationPending"})

\* sso_oidc.rs:57-79  one CreateToken call of the polling loop.  The identity
\* provider answers AuthorizationPending at most MaxPending times, and only
\* while the clock of the model has room for the sleep that follows.
CreateToken(p) ==
    /\ pc[p] = "poll"
    /\ \E ans \in CreateTokenAnswers(issued + 1) :
         LET polled == PollStep(ans, now)
             request == [client_id |-> client[p].val.client_id,
                         client_secret |-> client[p].val.client_secret,
                         code |-> challenge[p].val.user_code,
                         device_code |-> challenge[p].val.device_code]
         IN  /\ polled.next = "sleep" =>
                    /\ Pendings(trace[p]) < MaxPending
                    /\ now + challenge[p].val.interval <= MaxNow
             /\ ans.ok => issued < MaxIssued
             /\ issued' = IF ans.ok THEN issued + 1 ELSE issued
             /\ Log(p, <<Ev("CreateToken", "token",
                            [request |-> request, answer |-> ans])>>)
             /\ IF polled.next = "sleep"
                THEN /\ UNCHANGED computed
                     /\ Goto(p, "sleep")
                ELSE IF polled.result.ok
                THEN /\ computed' = [computed EXCEPT ![p] = Some(polled.result.val)]
                     /\ Goto(p, "store")
                ELSE /\ UNCHANGED computed
                     /\ StepErr(p, InitError(polled.result.err))
    /\ UNCHANGED <<now, cacheDir, files, config, challenge, startFiles, entry, suffixOf,
                   awsConfig, chain>>

\* Sleep with a timer on the side of the client: once the clock has moved past
\* the start of the call, the loop gives up without asking again.
SleepGivesUp(p) ==
    /\ pc[p] = "sleep"
    /\ now' = now + challenge[p].val.interval
    /\ Log(p, <<Ev("sleep", "token", [duration |-> challenge[p].val.interval])>>)
    /\ IF now' > 0
       THEN StepErr(p, InitError(CreateTokenVerificationPromptTimeout))
       ELSE Goto(p, "poll")
    /\ UNCHANGED <<cacheDir, files, issued, config, computed, challenge,
                   startFiles, entry, suffixOf,
                   awsConfig, chain>>

\* sso_oidc.rs:73  tokio::time::sleep(interval).await
Sleep(p) ==
    /\ pc[p] = "sleep"
    /\ now' = now + challenge[p].val.interval
    /\ Log(p, <<Ev("sleep", "token", [duration |-> challenge[p].val.interval])>>)
    /\ Goto(p, "poll")
    /\ UNCHANGED <<cacheDir, files, issued, config, computed, challenge,
                   startFiles, entry, suffixOf,
                   awsConfig, chain>>

\* GetRoleCredentials that asks once more after the first error of the service.
GetRoleCredentialsTriesTwice(p) ==
    /\ pc[p] = "init"
    /\ step[p] = "credentials"
    /\ \E ans \in GetRoleCredentialsAnswers(issued + 1, now) :
         LET res == GetRoleCredentialsResult(ans)
             request == [access_token |-> token[p].val.access_token,
                         account_id |-> config[p].val.account_id,
                         role_name |-> config[p].val.role_name]
         IN  /\ ans.ok => issued < MaxIssued
             /\ issued' = IF ans.ok THEN issued + 1 ELSE issued
             /\ Log(p, <<Ev("GetRoleCredentials", "credentials",
                            [request |-> request, answer |-> ans])>>)
             /\ IF res.ok
                THEN /\ computed' = [computed EXCEPT ![p] = Some(res.val)]
                     /\ Goto(p, "store")
                ELSE IF ~ans.ok /\ \A i \in DOMAIN trace[p] :
                                       trace[p][i].ev # "GetRoleCredentials"
                THEN /\ UNCHANGED computed
                     /\ Goto(p, "init")
                ELSE /\ UNCHANGED computed
                     /\ StepErr(p, InitError(res.err))
    /\ UNCHANGED <<now, cacheDir, files, config, challenge, startFiles, entry, suffixOf,
                   awsConfig, chain>>

\* flow.rs:143-150, sso.rs:24-33  init() of the credentials step
GetRoleCredentials(p) ==
    /\ pc[p] = "init"
    /\ step[p] = "credentials"
    /\ \E ans \in GetRoleCredentialsAnswers(issued + 1, now) :
         LET res == GetRoleCredentialsResult(ans)
             request == [access_token |-> token[p].val.access_token,
                         account_id |-> config[p].val.account_id,
                         role_name |-> config[p].val.role_name]
         IN  /\ ans.ok => issued < MaxIssued
             /\ issued' = IF ans.ok THEN issued + 1 ELSE issued
             /\ Log(p, <<Ev("GetRoleCredentials", "credentials",
                            [request |-> request, answer |-> ans])>>)
             /\ IF res.ok
                THEN /\ computed' = [computed EXCEPT ![p] = Some(res.val)]
                     /\ Goto(p, "store")
                ELSE /\ UNCHANGED computed
                     /\ StepErr(p, InitError(res.err))
    /\ UNCHANGED <<now, cacheDir, files, config, challenge, startFiles, entry, suffixOf,
                   awsConfig, chain>>

\* CacheStore that returns the computed value although the write failed.
CacheStoreLenient(p) ==
    /\ pc[p] = "store"
    /\ LET prefix == step[p]
           path == CachePath(cacheDir, CacheNew(config[p].val), prefix)
           value == computed[p].val
       IN  \/ /\ ~path.some
              /\ UNCHANGED files
              /\ StepOk(p, value)
              /\ Log(p, <<Ev("return", prefix, value)>>)
           \/ /\ path.some
              /\ files' = [files EXCEPT ![path.val] = Written(prefix, value)]
              /\ StepOk(p, value)
              /\ Log(p, <<Ev("write", prefix, [ok |-> TRUE, path |-> path.val]),
                          Ev("return", prefix, value)>>)
           \/ /\ path.some
              /\ UNCHANGED files
              /\ StepOk(p, value)
              /\ Log(p, <<Ev("write", prefix, [ok |-> FALSE, path |-> path.val]),
                          Ev("return", prefix, value)>>)
    /\ computed' = [computed EXCEPT ![p] = None]
    /\ UNCHANGED <<now, cacheDir, issued, config, challenge, startFiles, entry, suffixOf,
                   awsConfig, chain>>

\* cache.rs:67-78  init() succeeded: the value is written (when there is a
\* path) and returned; a failed create_dir_all or write is a Cache error.
CacheStore(p) ==
    /\ pc[p] = "store"
    /\ LET prefix == step[p]
           path == CachePath(cacheDir, CacheNew(config[p].val), prefix)
           value == computed[p].val
       IN  \/ /\ ~path.some
              /\ UNCHANGED files
              /\ StepOk(p, value)
              /\ Log(p, <<Ev("return", prefix, value)>>)
           \/ /\ path.some
              /\ files' = [files EXCEPT ![path.val] = Written(prefix, value)]
              /\ StepOk(p, value)
              /\ Log(p, <<Ev("write", prefix, [ok |-> TRUE, path |-> path.val]),
                          Ev("return", prefix, value)>>)
           \/ /\ path.some
              /\ UNCHANGED files
              /\ StepErr(p, CacheError("failed to write", path.val))
              /\ Log(p, <<Ev("write", prefix, [ok |-> FALSE, path |-> path.val])>>)
    /\ computed' = [computed EXCEPT ![p] = None]
    /\ UNCHANGED <<now, cacheDir, issued, config, challenge, startFiles, entry, suffixOf,
                   awsConfig, chain>>

\* Time passes.
Tick ==
    /\ now < MaxNow
    /\ now' = now + 1
    /\ UNCHANGED <<cacheDir, files, issued, pc, step, config, client, token,
                   computed, challenge, trace, result, prevOk, startFiles, entry, suffixOf,
                   awsConfig, chain>>

\* The steps of a call in progress.
Run(p) ==
    \/ CacheLookup(p)
    \/ RegisterClient(p)
    \/ StartDeviceAuthorization(p)
    \/ Prompt(p)
    \/ CreateToken(p)
    \/ Sleep(p)
    \/ GetRoleCredentials(p)
    \/ CacheStore(p)

\* The process has begun a call (every call logs its load).
Called(p) == trace[p] # <<>>

\* Spec: one process makes one authenticate call, from any state of the cache
\* directory.
Next ==
    \/ \E p \in MainProcs : ~Called(p) /\ Authenticate(p)
    \/ \E p \in MainProcs : Run(p)
    \/ Tick

Spec == Init /\ [][Next]_vars

\* SpecAgain: one process calls authenticate again and again; when it starts,
\* each path of the cache directory is empty or holds an artifact that an
\* earlier run left there.
InitAgain ==
    /\ Init
    /\ \A pre \in Prefixes :
         FilesOf(files, TheConfig)[pre]
             \in {NotFound, Written(pre, Artifact(pre, 0, 1 - CACHE_BUFFER))}

NextAgain ==
    \/ \E p \in MainProcs : Authenticate(p)
    \/ \E p \in MainProcs : Run(p)
    \/ Tick

SpecAgain == InitAgain /\ [][NextAgain]_vars

\* SpecProvider: one process resolves credentials once through an
\* SsoFlowBuilder used as a credentials provider.
NextProvider ==
    \/ \E p \in MainProcs : ~Called(p) /\ ProvideCredentials(p)
    \/ \E p \in MainProcs : Run(p)
    \/ Tick

SpecProvider == Init /\ [][NextProvider]_vars

\* SpecShared: the cache directory holds what a flow for TheConfig left
\* there, each entry absent or not yet expired; one process authenticates once
\* with a flow built for any of the configurations, with that directory.
InitShared ==
    /\ suffixOf \in {Suffixes(Md5From(digests)) : digests \in DigestLists}
    /\ awsConfig = [path |-> CONFIG_PATH, file |-> Ok(WorkFile), profile |-> "work"]
    /\ chain = ChainIdle(ChainNew)
    /\ Start
    /\ cacheDir.some
    /\ \A pre \in Prefixes :
         FilesOf(files, TheConfig)[pre]
             \in {NotFound, Written(pre, Artifact(pre, 0, CACHE_BUFFER + 1))}

NextShared ==
    \/ \E p \in MainProcs : ~Called(p) /\ AuthenticateWith(p)
    \/ \E p \in MainProcs : Run(p)
    \/ Tick

SpecShared == InitShared /\ [][NextShared]_vars

\* SpecProfile: one process loads its configuration from a profile of the
\* configuration file, whatever the file holds, and builds its flow; no cache
\* directory is set.
InitProfile ==
    /\ suffixOf = Suffixes(Md5From(DistinctDigests))
    /\ chain = ChainIdle(ChainNew)
    /\ Start
    /\ ~cacheDir.some
    /\ \E file \in ConfigFiles : \E profile \in Profiles :
         awsConfig = [path |-> CONFIG_PATH, file |-> file, profile |-> profile]

NextProfile == \E p \in MainProcs : ~Called(p) /\ AuthenticateProfile(p)

SpecProfile == InitProfile /\ [][NextProfile]_vars

-----------------------------------------------------------------------------
(* ChainProvider::credentials *)

\* rusoto.rs:117-119  credentials() is called on the chain: errors = vec![]
ChainCredentials ==
    /\ chain.at = 0
    /\ ~chain.result.some
    /\ chain' = [chain EXCEPT !.at = 1]
    /\ UNCHANGED <<now, cacheDir, files, issued, pc, step, config, client, token,
                   computed, challenge, trace, result, prevOk, startFiles, entry,
                   suffixOf, awsConfig>>

\* rusoto.rs:119-130  one turn of the loop: the next provider is awaited and
\* its answer handled, or no provider is left and the call fails.
ChainNext ==
    /\ chain.at > 0
    /\ IF chain.at <= Len(chain.providers)
       THEN \E answer \in ProviderAnswers(chain.providers[chain.at]) :
                chain' = ChainAnswered(chain, answer)
       ELSE chain' = ChainExhausted(chain)
    /\ UNCHANGED <<now, cacheDir, files, issued, pc, step, config, client, token,
                   computed, challenge, trace, result, prevOk, startFiles, entry,
                   suffixOf, awsConfig>>

\* SpecChain: credentials() is called once on a chain of any providers.
InitChain ==
    /\ suffixOf = Suffixes(Md5From(DistinctDigests))
    /\ awsConfig = [path |-> CONFIG_PATH, file |-> Ok(WorkFile), profile |-> "work"]
    /\ Start
    /\ ~cacheDir.some
    /\ \E providers \in ChainsUpTo(MaxProviders) : chain = ChainIdle(providers)

NextChain ==
    \/ ChainCredentials
    \/ ChainNext

SpecChain == InitChain /\ [][NextChain]_vars

-----------------------------------------------------------------------------
(* Reading a trace *)

\* The events of init(): the remote operations, the prompt and the sleep.
RemoteOps == {"RegisterClient", "StartDeviceAuthorization", "CreateToken",
              "GetRoleCredentials"}
ComputeEvents == RemoteOps \cup {"prompt", "sleep"}

\* A read found a text that parses as the artifact of its step.
Parses(e) == e.data.file.kind = "text" /\ FromStr(e.prefix, e.data.file.text).ok
Cached(e) == FromStr(e.prefix, e.data.file.text).val
CachedExpiry(e) == ExpiresAt(e.prefix, Cached(e))

\* The read at place i of the trace of p was answered from the cache.
Honoured(p, i) ==
    /\ i < Len(trace[p])
    /\ trace[p][i + 1].ev = "return"
    /\ trace[p][i + 1].prefix = trace[p][i].prefix
    /\ trace[p][i + 1].data = Cached(trace[p][i])

\* authenticate of p has returned the flow error of the given variant.
FailedWith(p, variant) ==
    /\ pc[p] = "idle"
    /\ result[p].some
    /\ ~result[p].val.ok
    /\ result[p].val.err.variant = "Flow"
    /\ result[p].val.err.inner.variant = variant

-----------------------------------------------------------------------------
(* C1: a read that finds a parseable artifact whose expires_at is more than *)
(* CACHE_BUFFER after the time of the read is answered with that artifact,  *)
(* and no event of init() of that step is in the trace.                     *)
C1_CacheHit ==
    \A p \in Procs : \A i \in DOMAIN trace[p] :
        LET e == trace[p][i] IN
        (e.ev = "read" /\ Parses(e) /\ CachedExpiry(e) > e.data.at + CACHE_BUFFER)
        => /\ Honoured(p, i)
           /\ \A j \in DOMAIN trace[p] :
                trace[p][j].prefix = e.prefix => trace[p][j].ev \notin ComputeEvents

C1_Witness ==
    \E p \in Procs : \E i \in DOMAIN trace[p] :
        /\ trace[p][i].ev = "read"
        /\ Parses(trace[p][i])
        /\ CachedExpiry(trace[p][i]) > trace[p][i].data.at + CACHE_BUFFER
        /\ Honoured(p, i)

(* C2: a read that finds a parseable artifact is answered from the cache    *)
(* exactly when expires_at is strictly after the time of the read plus      *)
(* CACHE_BUFFER; at or before it the entry counts as expired.               *)
C2_ExpiryBufferBoundary ==
    \A p \in Procs : \A i \in DOMAIN trace[p] :
        LET e == trace[p][i] IN
        (e.ev = "read" /\ Parses(e))
        => (Honoured(p, i) <=> CachedExpiry(e) > e.data.at + CACHE_BUFFER)

(* C3: a read that finds a text that does not parse ends the call at once:  *)
(* nothing follows it in the trace, no event of init() of that step is in   *)
(* the trace, and authenticate has returned SsoFlowError::Cache with the    *)
(* "corrupt" message of that path.                                          *)
C3_CorruptCacheIsFatal ==
    \A p \in Procs : \A i \in DOMAIN trace[p] :
        LET e == trace[p][i] IN
        (e.ev = "read" /\ e.data.file.kind = "text" /\ ~Parses(e))
        => /\ i = Len(trace[p])
           /\ \A j \in DOMAIN trace[p] :
                trace[p][j].prefix = e.prefix => trace[p][j].ev \notin ComputeEvents
           /\ FailedWith(p, "Cache")
           /\ result[p].val.err.inner.msg = <<"corrupt", e.data.path>>

C3_Witness ==
    \E p \in Procs : \E i \in DOMAIN trace[p] :
        /\ trace[p][i].ev = "read"
        /\ trace[p][i].data.file.kind = "text"
        /\ ~Parses(trace[p][i])
        /\ FailedWith(p, "Cache")

-----------------------------------------------------------------------------
\* The places of the events of the given kind in the trace of p.
Places(p, name) == {i \in DOMAIN trace[p] : trace[p][i].ev = name}

\* Whether the CreateToken call at place i was answered with the service error.
AnsweredWith(p, i, service) ==
    /\ trace[p][i].ev = "CreateToken"
    /\ ~trace[p][i].data.answer.ok
    /\ trace[p][i].data.answer.err.service = service

\* The poll interval of the challenge the identity provider gave p.
ChallengeInterval(p) ==
    LET i == CHOOSE i \in Places(p, "StartDeviceAuthorization") : TRUE
    IN  trace[p][i].data.answer.val.interval

(* C4: when the verification prompt answers with an error, the call ends     *)
(* there: nothing follows the prompt in the trace, the trace holds no        *)
(* CreateToken call, and authenticate has returned                           *)
(* SsoFlowError::VerificationPrompt (not Api) carrying the prompt's error.   *)
C4_PromptFailureShortCircuits ==
    \A p \in Procs : \A i \in Places(p, "prompt") :
        LET outcome == trace[p][i].data.outcome IN
        ~outcome.ok
        => /\ i = Len(trace[p])
           /\ Places(p, "CreateToken") = {}
           /\ FailedWith(p, "VerificationPrompt")
           /\ result[p].val.err.inner.inner = outcome.err

C4_Witness ==
    \E p \in Procs : \E i \in Places(p, "prompt") :
        /\ ~trace[p][i].data.outcome.ok
        /\ FailedWith(p, "VerificationPrompt")

(* C5: in the polling loop every AuthorizationPending answer is followed by  *)
(* one sleep of the challenge's poll interval and every sleep by the next    *)
(* CreateToken call; a sleep only ever follows a pending answer.  When a     *)
(* CreateToken call is answered with success after N pending answers, it is  *)
(* call number N+1 and the last one, there have been N sleeps, none follows  *)
(* it, and the token create_token returns carries the access_token of that   *)
(* answer.                                                                   *)
C5_PollingLoop ==
    \A p \in Procs :
        LET calls == Places(p, "CreateToken")
            pending == {i \in calls : AnsweredWith(p, i, "AuthorizationPending")}
            sleeps == Places(p, "sleep")
        IN  /\ \A i \in pending :
                 IF i = Len(trace[p]) THEN pc[p] = "sleep"
                 ELSE /\ trace[p][i + 1].ev = "sleep"
                      /\ trace[p][i + 1].data.duration = ChallengeInterval(p)
            /\ \A i \in sleeps :
                 /\ i - 1 \in pending
                 /\ IF i = Len(trace[p]) THEN pc[p] = "poll"
                    ELSE trace[p][i + 1].ev = "CreateToken"
            /\ \A i \in calls :
                 LET answer == trace[p][i].data.answer IN
                 answer.ok
                 => /\ Cardinality(calls) = Cardinality(pending) + 1
                    /\ Cardinality(sleeps) = Cardinality(pending)
                    /\ \A j \in calls \cup sleeps : j <= i
                    /\ CreateTokenTryFrom(answer.val, 0).ok
                       => /\ i = Len(trace[p])
                             => /\ pc[p] = "store"
                                /\ computed[p].val.access_token = answer.val.access_token
                          /\ \A j \in Places(p, "return") :
                               trace[p][j].prefix = "token"
                               => trace[p][j].data.access_token = answer.val.access_token
                          /\ token[p].some
                               => token[p].val.access_token = answer.val.access_token

C5_Witness ==
    \E p \in Procs : \E i \in Places(p, "CreateToken") :
        /\ trace[p][i].data.answer.ok
        /\ i > 4
        /\ AnsweredWith(p, i - 2, "AuthorizationPending")
        /\ AnsweredWith(p, i - 4, "AuthorizationPending")
        /\ token[p].some
        /\ token[p].val.access_token = trace[p][i].data.answer.val.access_token

(* C6: a CreateToken call answered with ExpiredToken ends the call at once:  *)
(* nothing (no further CreateToken call, no sleep) follows it in the trace,  *)
(* and authenticate has returned SsoFlowError::VerificationPromptTimeout,    *)
(* which is not the Api variant.                                             *)
C6_ExpiredTokenIsTimeout ==
    \A p \in Procs : \A i \in Places(p, "CreateToken") :
        AnsweredWith(p, i, "ExpiredToken")
        => /\ i = Len(trace[p])
           /\ FailedWith(p, "VerificationPromptTimeout")
           /\ ~FailedWith(p, "Api")

C6_Witness ==
    \E p \in Procs : \E i \in Places(p, "CreateToken") :
        /\ AnsweredWith(p, i, "ExpiredToken")
        /\ i > 1
        /\ trace[p][i - 1].ev = "sleep"
        /\ FailedWith(p, "VerificationPromptTimeout")

\* The events of Client::create_token (sso_oidc.rs:36-81).
PollerEvents == {"StartDeviceAuthorization", "prompt", "CreateToken", "sleep"}

(* C7: when the read of the token step finds a parseable token that has not  *)
(* expired at the time of the read, the trace holds no event of create_token *)
(* (no StartDeviceAuthorization, no prompt, no CreateToken); and with a      *)
(* cache directory set, the events of create_token only ever follow a read   *)
(* of the token step that was not answered from the cache.                   *)
C7_ValidTokenSkipsPoller ==
    \A p \in Procs :
        /\ \A i \in Places(p, "read") :
             LET e == trace[p][i] IN
             (e.prefix = "token" /\ Parses(e) /\ CachedExpiry(e) > e.data.at)
             => /\ Honoured(p, i)
                /\ \A j \in DOMAIN trace[p] : trace[p][j].ev \notin PollerEvents
        /\ \A j \in DOMAIN trace[p] :
             (trace[p][j].ev \in PollerEvents /\ cacheDir.some)
             => \E i \in Places(p, "read") :
                  /\ i < j
                  /\ trace[p][i].prefix = "token"
                  /\ ~Honoured(p, i)

C7_Witness ==
    \E p \in Procs : \E i \in Places(p, "read") :
        /\ trace[p][i].prefix = "token"
        /\ Parses(trace[p][i])
        /\ CachedExpiry(trace[p][i]) > trace[p][i].data.at
        /\ Honoured(p, i)
        /\ result[p].some
        /\ result[p].val.ok

-----------------------------------------------------------------------------
\* The file of a prefix holds an artifact that has expired at time t.
HoldsExpired(fs, prefix, t) ==
    /\ fs[prefix].kind = "text"
    /\ FromStr(prefix, fs[prefix].text).ok
    /\ ExpiresAt(prefix, FromStr(prefix, fs[prefix].text).val) <= t

\* The configuration of the call in progress (or of the last call) loaded.
Loaded(p) == Called(p) /\ trace[p][1].data.ok

(* C8: with a cache directory set, when the call before returned credentials *)
(* and the call now in progress (or just finished) loaded the same           *)
(* configuration and found no expired artifact in the cache directory when   *)
(* it began, its trace holds no remote operation, no prompt and no sleep,    *)
(* and when it returns it returns the credentials of the call before.        *)
C8_RepeatedAuthenticationIsSilent ==
    \A p \in Procs :
        ( /\ cacheDir.some
          /\ prevOk[p].some
          /\ Loaded(p)
          /\ \A pre \in Prefixes : ~HoldsExpired(FilesOf(startFiles[p], TheConfig), pre, now) )
        => /\ \A i \in DOMAIN trace[p] : trace[p][i].ev \notin ComputeEvents
           /\ result[p].some => result[p].val = Ok(prevOk[p].val)

C8_Witness ==
    \E p \in Procs :
        /\ cacheDir.some
        /\ prevOk[p].some
        /\ Loaded(p)
        /\ \A pre \in Prefixes : ~HoldsExpired(FilesOf(startFiles[p], TheConfig), pre, now)
        /\ result[p].some
        /\ result[p].val = Ok(prevOk[p].val)
        /\ Cardinality(Places(p, "read")) = 3

\* The last event of the trace of p.
Last(p) == trace[p][Len(trace[p])]

\* The event is a remote operation that did not give its step a value: the
\* service answered with an error other than AuthorizationPending and
\* ExpiredToken, or the response lacks a required member.
FailedRemoteOp(e) ==
    /\ e.ev \in RemoteOps
    /\ IF e.data.answer.ok
       THEN \/ e.ev = "RegisterClient" /\ ~RegisterClientTryFrom(e.data.answer.val).ok
            \/ /\ e.ev = "StartDeviceAuthorization"
               /\ ~StartDeviceAuthorizationTryFrom(e.data.answer.val).ok
            \/ e.ev = "CreateToken" /\ ~CreateTokenTryFrom(e.data.answer.val, 0).ok
            \/ /\ e.ev = "GetRoleCredentials"
               /\ ~GetRoleCredentialsTryFrom(e.data.answer.val).ok
       ELSE e.data.answer.err.service \notin {"AuthorizationPending", "ExpiredToken"}

\* The event is a cache failure: a file that cannot be read or parsed, or a
\* write that failed.
FailedCacheOp(e) ==
    \/ e.ev = "read" /\ e.data.file.kind = "Unreadable"
    \/ e.ev = "read" /\ e.data.file.kind = "text" /\ ~Parses(e)
    \/ e.ev = "write" /\ ~e.data.ok

(* C9: every cache failure (read, parse, write) in any of the three steps    *)
(* ends authenticate with SsoFlowError::Cache and every failed remote        *)
(* operation ends it with SsoFlowError::Api; conversely a Cache error comes  *)
(* from a cache failure and an Api error from a failed remote operation;     *)
(* VerificationPrompt comes only from a failed prompt and                    *)
(* VerificationPromptTimeout only from an ExpiredToken answer, both in the   *)
(* token step.                                                               *)
C9_ErrorTaxonomy ==
    \A p \in Procs :
        /\ \A i \in DOMAIN trace[p] :
             /\ FailedCacheOp(trace[p][i]) => i = Len(trace[p]) /\ FailedWith(p, "Cache")
             /\ FailedRemoteOp(trace[p][i]) => i = Len(trace[p]) /\ FailedWith(p, "Api")
        /\ FailedWith(p, "Cache") => FailedCacheOp(Last(p))
        /\ FailedWith(p, "Api") => FailedRemoteOp(Last(p))
        /\ FailedWith(p, "VerificationPrompt")
             => Last(p).ev = "prompt" /\ Last(p).prefix = "token"
        /\ FailedWith(p, "VerificationPromptTimeout")
             => /\ AnsweredWith(p, Len(trace[p]), "ExpiredToken")
                /\ Last(p).prefix = "token"

C9_Witness ==
    \E p \in Procs :
        /\ Called(p)
        /\ Last(p).prefix = "credentials"
        /\ FailedRemoteOp(Last(p))
        /\ FailedWith(p, "Api")

\* authenticate of p has returned an SsoError of the given variant.
ReturnedError(p, variant) ==
    /\ result[p].some
    /\ ~result[p].val.ok
    /\ result[p].val.err.variant = variant

(* C10: authenticate returns SsoError::Config exactly when the load of the   *)
(* configuration failed, and then it carries the error of the load, the      *)
(* trace holds nothing but the load (no read, no write, no remote operation, *)
(* no prompt) and the cache directory is as it was; every error returned     *)
(* after the configuration loaded is SsoError::Flow.                         *)
C10_ConfigVersusFlow ==
    \A p \in Procs :
        Called(p)
        => LET load == trace[p][1].data IN
           /\ ReturnedError(p, "Config") <=> ~load.ok
           /\ ~load.ok
                => /\ result[p].val.err.inner = load.err
                   /\ Len(trace[p]) = 1
                   /\ files = startFiles[p]
                   /\ pc[p] = "idle"
           /\ (load.ok /\ result[p].some /\ ~result[p].val.ok)
                => ReturnedError(p, "Flow")

C10_Witness ==
    \E p \in Procs :
        /\ ReturnedError(p, "Config")
        /\ now > 0

-----------------------------------------------------------------------------
(* C11: when an SsoFlowBuilder resolves credentials as a provider, a failed  *)
(* load of the configuration is returned as CredentialsNotLoaded carrying    *)
(* the error of the load, and then authenticate was never attempted: the     *)
(* trace holds nothing but the load and the cache directory is as it was;    *)
(* CredentialsNotLoaded is returned in no other case, and every error        *)
(* returned after the configuration loaded is ProviderError carrying the     *)
(* SsoFlowError of authenticate.                                             *)
C11_ProviderErrorKinds ==
    \A p \in Procs :
        (Called(p) /\ entry[p] = "provide_credentials")
        => LET load == trace[p][1].data IN
           /\ ReturnedError(p, "CredentialsNotLoaded") <=> ~load.ok
           /\ ~load.ok
                => /\ result[p].val.err.inner = load.err
                   /\ Len(trace[p]) = 1
                   /\ files = startFiles[p]
                   /\ pc[p] = "idle"
           /\ (load.ok /\ result[p].some /\ ~result[p].val.ok)
                => /\ ReturnedError(p, "ProviderError")
                   /\ result[p].val.err.inner.variant \in
                        {"Api", "Cache", "VerificationPrompt", "VerificationPromptTimeout"}

C11_Witness ==
    \E p \in Procs :
        /\ entry[p] = "provide_credentials"
        /\ Loaded(p)
        /\ ReturnedError(p, "ProviderError")
        /\ result[p].val.err.inner.variant = "VerificationPromptTimeout"

-----------------------------------------------------------------------------
\* The place of a step in authenticate (flow.rs:102, 115, 141).
StepIndex(prefix) ==
    IF prefix = "client" THEN 1 ELSE IF prefix = "token" THEN 2 ELSE 3

\* The remote operation with which init() of a step begins.
FirstOp(prefix) ==
    IF prefix = "client" THEN "RegisterClient"
    ELSE IF prefix = "token" THEN "StartDeviceAuthorization"
    ELSE "GetRoleCredentials"

\* The call of p has gone past the cache lookup of the step and its first
\* remote operation has been answered.
InitBegun(p, prefix) ==
    /\ Loaded(p)
    /\ \/ StepIndex(prefix) < StepIndex(step[p])
       \/ step[p] = prefix /\ pc[p] \notin {"lookup", "init"}

\* What init() of the step of the event answers when the event is its last
\* remote operation: the value, or the error message.
InitResult(e, t) ==
    IF e.ev = "RegisterClient" THEN RegisterClientResult(e.data.answer)
    ELSE IF e.ev = "GetRoleCredentials" THEN GetRoleCredentialsResult(e.data.answer)
    ELSE LET r == IF e.ev = "StartDeviceAuthorization"
                  THEN StartDeviceAuthorizationResult(e.data.answer)
                  ELSE PollStep(e.data.answer, t).result
         IN  IF r.ok THEN r ELSE Err(r.err.msg)

(* C12: with no cache directory, no call reads or writes a file and the     *)
(* directory stays as it was; every get_or_init that has gone past its      *)
(* lookup has invoked init() exactly once, and no other has invoked it; a   *)
(* value get_or_init returns is the value init() has just computed from the *)
(* answer of the remote operation; and when init() fails, its error is the  *)
(* error the call returns.                                                  *)
C12_PassThroughWithoutCache ==
    \A p \in Procs :
        ~cacheDir.some
        => /\ \A i \in DOMAIN trace[p] : trace[p][i].ev \notin {"read", "write"}
           /\ files = startFiles[p]
           /\ \A pre \in Prefixes :
                Cardinality(Places(p, FirstOp(pre))) =
                    IF InitBegun(p, pre) THEN 1 ELSE 0
           /\ \A i \in Places(p, "return") :
                /\ i > 1
                /\ trace[p][i - 1].ev \in RemoteOps
                /\ trace[p][i - 1].prefix = trace[p][i].prefix
                /\ \E t \in 0..now :
                     InitResult(trace[p][i - 1], t) = Ok(trace[p][i].data)
           /\ (Called(p) /\ FailedRemoteOp(Last(p)))
                => /\ FailedWith(p, "Api")
                   /\ result[p].val.err.inner.msg = InitResult(Last(p), 0).err

C12_Witness ==
    \E p \in Procs :
        /\ ~cacheDir.some
        /\ prevOk[p].some
        /\ Cardinality(Places(p, "return")) = 1
        /\ InitBegun(p, "client")

-----------------------------------------------------------------------------
(* C13: a read that fails with an error other than NotFound ends the call   *)
(* at once with SsoFlowError::Cache and the "failed to read" message of the *)
(* path, and no event of init() of that step is in the trace; a read that   *)
(* fails with NotFound is a miss: the call goes on to init() of that step,  *)
(* whose first remote operation is the next event.                          *)
C13_ReadErrors ==
    \A p \in Procs : \A i \in Places(p, "read") :
        LET e == trace[p][i] IN
        /\ e.data.file.kind = "Unreadable"
             => /\ i = Len(trace[p])
                /\ \A j \in DOMAIN trace[p] :
                     trace[p][j].prefix = e.prefix
                     => trace[p][j].ev \notin ComputeEvents
                /\ FailedWith(p, "Cache")
                /\ result[p].val.err.inner.msg = <<"failed to read", e.data.path>>
        /\ e.data.file.kind = "NotFound"
             => IF i = Len(trace[p])
                THEN pc[p] = "init" /\ step[p] = e.prefix
                ELSE /\ trace[p][i + 1].ev = FirstOp(e.prefix)
                     /\ trace[p][i + 1].prefix = e.prefix

C13_Witness ==
    \E p \in Procs : \E i, j \in Places(p, "read") :
        /\ i < j
        /\ trace[p][i].data.file.kind = "NotFound"
        /\ trace[p][i + 1].ev = FirstOp(trace[p][i].prefix)
        /\ trace[p][j].data.file.kind = "Unreadable"
        /\ FailedWith(p, "Cache")

-----------------------------------------------------------------------------
(* C14: a failed write follows a remote operation whose answer gave init()  *)
(* its value, and it ends the call at once: nothing follows it in the       *)
(* trace, get_or_init returns no value for that step, no later step has     *)
(* begun, and authenticate has returned SsoFlowError::Cache with the        *)
(* "failed to write" message of the path, so the caller gets no             *)
(* credentials.                                                             *)
C14_WriteFailureIsFatal ==
    \A p \in Procs : \A i \in Places(p, "write") :
        LET e == trace[p][i] IN
        ~e.data.ok
        => /\ i > 1
           /\ trace[p][i - 1].ev \in RemoteOps
           /\ trace[p][i - 1].prefix = e.prefix
           /\ \E t \in 0..now : InitResult(trace[p][i - 1], t).ok
           /\ i = Len(trace[p])
           /\ \A j \in Places(p, "return") : trace[p][j].prefix # e.prefix
           /\ \A j \in DOMAIN trace[p] :
                trace[p][j].prefix \in Prefixes
                => StepIndex(trace[p][j].prefix) <= StepIndex(e.prefix)
           /\ FailedWith(p, "Cache")
           /\ result[p].val.err.inner.msg = <<"failed to write", e.data.path>>
           /\ step[p] = e.prefix

C14_Witness ==
    \E p \in Procs : \E i \in Places(p, "write") :
        /\ ~trace[p][i].data.ok
        /\ trace[p][i].prefix = "token"
        /\ trace[p][i - 1].ev = "CreateToken"
        /\ FailedWith(p, "Cache")

-----------------------------------------------------------------------------
\* The places of the writes of p that succeeded.
WritesDone(p) == {i \in Places(p, "write") : trace[p][i].data.ok}

(* C15: the file names of the three prefixes in the cache of a call's        *)
(* configuration are pairwise different; every read and every write of the   *)
(* call is at the file name of its own prefix; a file of that cache is as it *)
(* was when the call began unless the call has written it in the step of     *)
(* that prefix; and what a step reads is what its file held when the call    *)
(* began, whatever the earlier steps have written.                           *)
C15_PrefixesNeverCollide ==
    \A p \in Procs :
        Loaded(p)
        => LET suffix == CacheNew(trace[p][1].data.val) IN
           /\ \A pre1, pre2 \in Prefixes :
                pre1 # pre2 => FileName(pre1, suffix) # FileName(pre2, suffix)
           /\ \A i \in Places(p, "read") \cup Places(p, "write") :
                trace[p][i].data.path = FileName(trace[p][i].prefix, suffix)
           /\ \A pre \in Prefixes :
                (\A i \in WritesDone(p) : trace[p][i].prefix # pre)
                => files[FileName(pre, suffix)] = startFiles[p][FileName(pre, suffix)]
           /\ \A i \in Places(p, "read") :
                trace[p][i].data.file
                    = startFiles[p][FileName(trace[p][i].prefix, suffix)]

C15_Witness ==
    \E p \in Procs : \E i \in WritesDone(p) : \E j \in Places(p, "read") :
        /\ i < j
        /\ trace[p][i].prefix = "client"
        /\ trace[p][j].prefix = "token"
        /\ trace[p][j].data.file.kind = "text"
        /\ Honoured(p, j)

-----------------------------------------------------------------------------
\* The two configurations have the same value in every field.
SameFields(c1, c2) ==
    /\ c1.region = c2.region
    /\ c1.start_url = c2.start_url
    /\ c1.account_id = c2.account_id
    /\ c1.role_name = c2.role_name

(* C16: the suffix of a call's configuration is the folded digest of the     *)
(* bytes its four fields write to the hasher, and every configuration with   *)
(* the same value in every field has that suffix; the flow of every call for *)
(* the configuration reads and writes, for each prefix, the one file whose    *)
(* name is made of the prefix and of that suffix, whatever flows ran before   *)
(* it; and an artifact found there that parses and that IsValid admits at     *)
(* the time of the read, such as one an earlier flow stored, is returned for  *)
(* the step.                                                                  *)
C16_FingerprintIsDeterministic ==
    \A p \in Procs :
        Loaded(p)
        => LET suffix == suffixOf[HashStream(trace[p][1].data.val)] IN
           /\ \A c \in Configs :
                SameFields(c, trace[p][1].data.val) => CacheNew(c) = suffix
           /\ \A i \in Places(p, "read") \cup Places(p, "write") :
                trace[p][i].data.path = FileName(trace[p][i].prefix, suffix)
           /\ \A i \in Places(p, "read") :
                ( /\ Parses(trace[p][i])
                  /\ IsValid(CachedExpiry(trace[p][i]), trace[p][i].data.at) )
                => Honoured(p, i)

\* A flow after one that returned credentials is answered, for the
\* credentials, from the file that the earlier flow stored.
C16_Witness ==
    \E p \in Procs : \E i \in Places(p, "read") :
        /\ prevOk[p].some
        /\ trace[p][i].prefix = "credentials"
        /\ Parses(trace[p][i])
        /\ Cached(trace[p][i]).access_key_id >= 1
        /\ trace[p][i].data.file = FilesOf(startFiles[p], TheConfig)["credentials"]
        /\ Honoured(p, i)

-----------------------------------------------------------------------------
\* The file names of the cache whose suffix is given.
NamesOf(suffix) == {FileName(pre, suffix) : pre \in Prefixes}

\* The call of p has read or written one of the files named.
Touched(p, names) ==
    \E i \in Places(p, "read") \cup Places(p, "write") :
        trace[p][i].data.path \in names

\* The files named are as they were when the call of p began.
Untouched(p, names) == \A n \in names : files[n] = startFiles[p][n]

-----------------------------------------------------------------------------
(* C18 as stated: the suffix has the same number of digits for every         *)
(* configuration, the sixteen digits of a 64-bit value, also when the value   *)
(* has leading zero digits.                                                   *)
C18_SuffixIsFixedWidth ==
    \A p \in Procs :
        Loaded(p)
        => /\ Len(CacheNew(trace[p][1].data.val)) = 16
           /\ \A c \in Configs :
                Len(CacheNew(c)) = Len(CacheNew(trace[p][1].data.val))
           /\ \A i \in Places(p, "read") \cup Places(p, "write") :
                Len(trace[p][i].data.path)
                    = Len(trace[p][i].prefix) + Len("-") + 16 + Len(".json")

-----------------------------------------------------------------------------
(* Reading a configuration file *)

\* The headers of the profile in the file.
HeadersOf(file, profile) ==
    {i \in DOMAIN file : file[i].kind = "header" /\ file[i].name = profile}

\* The file has a section for the profile.
HasSection(file, profile) == HeadersOf(file, profile) # {}

\* The lines of the first section of the profile: those after its header and
\* before the next header.
SectionOf(file, profile) ==
    LET first == CHOOSE i \in HeadersOf(file, profile) :
                     \A j \in HeadersOf(file, profile) : i <= j
    IN  {i \in DOMAIN file :
           i > first /\ \A j \in (first + 1)..i : file[j].kind # "header"}

\* The lines of the section that give the key a value: `key = value` with a
\* value that is not empty.
ValuedLines(file, profile, key) ==
    {i \in SectionOf(file, profile) :
       /\ file[i].kind = "text"
       /\ Len(file[i].pieces) = 2
       /\ file[i].pieces[1] = key
       /\ file[i].pieces[2] # ""}

\* The value the section gives the key: that of the last such line.
ValueIn(file, profile, key) ==
    LET last == CHOOSE i \in ValuedLines(file, profile, key) :
                    \A j \in ValuedLines(file, profile, key) : j <= i
    IN  file[last].pieces[2]

\* The keys the section gives no value, in the order of KEYS.
KeysWithoutValue(file, profile) ==
    SelectSeq(KEYS, LAMBDA key : ValuedLines(file, profile, key) = {})

\* What the load of the call of p answered.
LoadAnswer(p) == trace[p][1].data

(* C19: when the load from a profile answers a configuration, the file can   *)
(* be read, it has a section for the profile, and the first such section      *)
(* gives a value to each of sso_region, sso_start_url, sso_account_id and     *)
(* sso_role_name; the configuration has these four fields and no other, its   *)
(* start_url, account_id and role_name are the values of the section and its  *)
(* region is the region that the value of sso_region names; when the file     *)
(* cannot be read, or has no such section, or the section leaves a key        *)
(* without a value, the load answers an error, the call has no configuration  *)
(* and returns the error as a Config error.                                   *)
C19_NoPartialConfiguration ==
    \A p \in Procs :
        Called(p)
        => LET a == LoadAnswer(p)
               file == awsConfig.file.val
               profile == awsConfig.profile
               complete == /\ awsConfig.file.ok
                           /\ HasSection(file, profile)
                           /\ KeysWithoutValue(file, profile) = <<>>
           IN  /\ a.ok => complete
               /\ a.ok
                  => /\ DOMAIN a.val = {"region", "start_url", "account_id", "role_name"}
                     /\ Ok(a.val.region)
                            = RegionFromStr(ValueIn(file, profile, "sso_region"))
                     /\ a.val.start_url = ValueIn(file, profile, "sso_start_url")
                     /\ a.val.account_id = ValueIn(file, profile, "sso_account_id")
                     /\ a.val.role_name = ValueIn(file, profile, "sso_role_name")
                     /\ config[p] = Some(a.val)
               /\ ~complete => ~a.ok
               /\ ~a.ok
                  => /\ config[p] = None
                     /\ pc[p] = "idle"
                     /\ result[p] = Some(Err(FromProfileError(a.err)))

\* A load that answers a configuration whose region is written in the file
\* under its other spelling, after the other three keys.
C19_Witness ==
    \E p \in Procs :
        /\ Called(p)
        /\ LoadAnswer(p).ok
        /\ config[p] = Some(TheConfig)
        /\ ValueIn(awsConfig.file.val, awsConfig.profile, "sso_region") = "euwest1"
        /\ ValuedLines(awsConfig.file.val, awsConfig.profile, "sso_region") = {5}

(* C20: when the file has a section for the profile and the first such       *)
(* section leaves some of the four keys without a value, the load answers     *)
(* the error "incomplete SSO configuration in profile <profile>; missing: "   *)
(* followed by the keys without a value, each once, in the order sso_region,  *)
(* sso_start_url, sso_account_id, sso_role_name, separated by ", ", and by    *)
(* no other key; when the file has no section for the profile, the load       *)
(* answers the error "profile <profile> is not defined in in config file      *)
(* <path>".  The call returns either as a Config error.                       *)
C20_ConfigErrorShapes ==
    \A p \in Procs :
        (Called(p) /\ awsConfig.file.ok)
        => LET a == LoadAnswer(p)
               file == awsConfig.file.val
               profile == awsConfig.profile
               without == KeysWithoutValue(file, profile)
           IN  /\ (HasSection(file, profile) /\ without # <<>>)
                  => /\ ~a.ok
                     /\ a.err = "incomplete SSO configuration in profile " \o profile
                                    \o "; missing: " \o Join(without, ", ")
                     /\ result[p] = Some(Err(FromProfileError(a.err)))
               /\ ~HasSection(file, profile)
                  => /\ ~a.ok
                     /\ a.err = "profile " \o profile
                                    \o " is not defined in in config file "
                                    \o awsConfig.path
                     /\ result[p] = Some(Err(FromProfileError(a.err)))

\* A load from a section that gives two of the keys a value and leaves the
\* first and the last of the four without.
C20_Witness ==
    \E p \in Procs :
        /\ Called(p)
        /\ awsConfig.file.ok
        /\ HasSection(awsConfig.file.val, awsConfig.profile)
        /\ KeysWithoutValue(awsConfig.file.val, awsConfig.profile)
               = <<"sso_region", "sso_role_name">>
        /\ ~LoadAnswer(p).ok
        /\ LoadAnswer(p).err
               = "incomplete SSO configuration in profile work; missing: sso_region, sso_role_name"

-----------------------------------------------------------------------------
(* The Debug rendering of SessionCredentials: credentials.rs:26-33.  A        *)
(* rendering is the name of the struct, the fields written in order, each    *)
(* with its value, and whether it ends with `..`.                            *)

\* The rendering #[derive(Debug)] would give: every field.
DebugFmtDerived(creds) ==
    [name |-> "SessionCredentials",
     fields |-> << <<"access_key_id", creds.access_key_id>>,
                   <<"secret_access_key", creds.secret_access_key>>,
                   <<"session_token", creds.session_token>>,
                   <<"expires_at", creds.expires_at>> >>,
     non_exhaustive |-> FALSE]

\* credentials.rs:27-32  <SessionCredentials as Debug>::fmt
DebugFmt(creds) ==
    [name |-> "SessionCredentials",
     fields |-> << <<"access_key_id", creds.access_key_id>>,
                   <<"expires_at", creds.expires_at>> >>,
     non_exhaustive |-> TRUE]

\* The values a secret access key or a session token may have.
Secrets == 0..MaxIssued

\* authenticate of p has returned session credentials.
ReturnedCredentials(p) ==
    /\ pc[p] = "idle"
    /\ result[p].some
    /\ result[p].val.ok
    /\ entry[p] = "authenticate"

(* C21: the Debug rendering of the session credentials that authenticate     *)
(* returned is the rendering of the same credentials with any other secret   *)
(* access key and any other session token, and it has the two fields         *)
(* access_key_id and expires_at, with their values, and no other.            *)
C21_DebugHidesSecrets ==
    \A p \in Procs :
        ReturnedCredentials(p)
        => LET creds == result[p].val.val IN
           /\ \A secret, session \in Secrets :
                DebugFmt([creds EXCEPT !.secret_access_key = secret,
                                       !.session_token = session])
                    = DebugFmt(creds)
           /\ DebugFmt(creds).fields
                  = << <<"access_key_id", creds.access_key_id>>,
                       <<"expires_at", creds.expires_at>> >>

\* authenticate has returned credentials that the identity provider issued in
\* this call, secret access key and session token included.
C21_Witness ==
    \E p \in Procs :
        /\ ReturnedCredentials(p)
        /\ Places(p, "GetRoleCredentials") # {}
        /\ result[p].val.val.secret_access_key \in Secrets
        /\ result[p].val.val.session_token \in Secrets

-----------------------------------------------------------------------------
\* The answers the providers invoked so far gave, in the order of invocation.
ChainAnswers == [i \in DOMAIN chain.invoked |-> chain.invoked[i].answer]

(* C22: credentials() of a chain invokes the providers in push order, the    *)
(* i-th invocation being of the i-th provider, each at most once; a provider *)
(* is invoked only when every provider before it answered an error; when a   *)
(* provider answers credentials the call returns them and none after it is   *)
(* invoked; the call returns an error only when every provider was invoked   *)
(* and answered an error, and the error lists these errors in push order; so *)
(* the call on an empty chain returns an error.                              *)
C22_ChainTriesInOrder ==
    /\ Len(chain.invoked) <= Len(chain.providers)
    /\ \A i \in DOMAIN chain.invoked :
         /\ chain.invoked[i].index = i
         /\ chain.invoked[i].answer \in ProviderAnswers(chain.providers[i])
         /\ \A j \in 1..(i - 1) : ~ChainAnswers[j].ok
    /\ \A i \in DOMAIN chain.invoked :
         ChainAnswers[i].ok
         => /\ i = Len(chain.invoked)
            /\ chain.result = Some(ChainAnswers[i])
    /\ (chain.result.some /\ chain.result.val.ok)
       => /\ chain.invoked # <<>>
          /\ chain.result.val = ChainAnswers[Len(chain.invoked)]
    /\ (chain.result.some /\ ~chain.result.val.ok)
       => /\ Len(chain.invoked) = Len(chain.providers)
          /\ \A i \in DOMAIN chain.invoked : ~ChainAnswers[i].ok
          /\ chain.result.val.err
                 = ChainError([i \in DOMAIN chain.invoked |-> ChainAnswers[i].err])
    /\ (chain.providers = ChainNew /\ chain.result.some) => ~chain.result.val.ok

\* The second provider of a chain of three answered credentials after the
\* first had failed, and the call returned them.
C22_Witness ==
    /\ Len(chain.providers) = 3
    /\ Len(chain.invoked) = 2
    /\ ~ChainAnswers[1].ok
    /\ ChainAnswers[2].ok
    /\ chain.result = Some(ChainAnswers[2])
    /\ chain.at = 0


------------------------------------------------------------------------------
(* The polling loop under a fair schedule *)

\* SpecPoll: Spec with no token in the cache directory, so that a call whose
\* client step returns a value goes on to create_token, and where a call in
\* progress keeps taking steps: the runtime polls the future of authenticate
\* until it is ready, every sleep elapses and every remote call is answered.
InitPoll == Init /\ FilesOf(files, TheConfig)["token"] = NotFound

SpecPoll == InitPoll /\ [][Next]_vars /\ \A p \in MainProcs : WF_vars(Run(p))

\* p is inside the loop of create_token (sso_oidc.rs:67-80).
Polling(p) == pc[p] \in {"poll", "sleep"}

\* The step taken is a CreateToken call of p that was answered.
CreateTokenAnswered(p) ==
    /\ pc[p] = "poll"
    /\ Len(trace'[p]) = Len(trace[p]) + 1
    /\ trace'[p][Len(trace'[p])].ev = "CreateToken"

\* The answer of the CreateToken call just made.
LastAnswer(p) == trace'[p][Len(trace'[p])].data.answer

\* The answer is the error AuthorizationPending.
IsPending(answer) == ~answer.ok /\ answer.err.service = "AuthorizationPending"

(* C23: the loop of create_token is left only by a step that is a CreateToken *)
(* call whose answer is not AuthorizationPending (never by a sleep, by the    *)
(* clock or by a count of attempts); after an answer of AuthorizationPending  *)
(* the loop goes on, however many came before and whatever the time is; and   *)
(* under a fair schedule a call that is in the loop always comes to its end:  *)
(* create_token leaves the loop and authenticate returns.                     *)
C23_PollingEndsOnAnswer ==
    /\ [][\A p \in Procs :
            /\ (Polling(p) /\ ~Polling(p)')
                 => /\ CreateTokenAnswered(p)
                    /\ ~IsPending(LastAnswer(p))
            /\ (CreateTokenAnswered(p) /\ IsPending(LastAnswer(p)))
                 => pc'[p] = "sleep"
            /\ pc[p] = "sleep" => pc'[p] \in {"sleep", "poll"}]_vars
    /\ \A p \in MainProcs : Polling(p) ~> (~Polling(p) /\ pc[p] = "idle")

\* A call that was answered AuthorizationPending as often as the identity
\* provider does, slept each time, and has returned.
C23_Witness ==
    \E p \in MainProcs :
        /\ Pendings(trace[p]) = MaxPending
        /\ Cardinality(Places(p, "sleep")) = MaxPending
        /\ pc[p] = "idle"
        /\ result[p].some


------------------------------------------------------------------------------
(* Two calls at once *)

\* SpecTwo: two processes call authenticate once each, at the same time, for
\* TheConfig and with the same cache directory; one entry of the directory is
\* absent or out of date and the two others are good.  The clock moves when a
\* process sleeps.
InitTwo ==
    /\ Init
    /\ cacheDir.some
    /\ \E missing \in Prefixes :
         \A pre \in Prefixes :
             IF pre = missing
             THEN FilesOf(files, TheConfig)[pre]
                      \in {NotFound,
                           Written(pre, Artifact(pre, 0, 0 - CACHE_BUFFER))}
             ELSE FilesOf(files, TheConfig)[pre]
                      = Written(pre, Artifact(pre, 0, CACHE_BUFFER + 1))

\* A file that has been created or truncated and not written yet.
Empty == Text(<<>>)

\* cache.rs:72-74  fs::create_dir_all(..).and_then(|_| fs::write(path, ..)), as
\* far as fs::write has opened the file: File::create makes the file or cuts
\* it to length zero.  Nothing is held between this and the write.
CacheCreate(p) ==
    /\ pc[p] = "store"
    /\ LET prefix == step[p]
           path == CachePath(cacheDir, CacheNew(config[p].val), prefix)
           value == computed[p].val
       IN  \/ /\ ~path.some
              /\ UNCHANGED files
              /\ StepOk(p, value)
              /\ Log(p, <<Ev("return", prefix, value)>>)
              /\ computed' = [computed EXCEPT ![p] = None]
           \/ /\ path.some
              /\ files' = [files EXCEPT ![path.val] = Empty]
              /\ Goto(p, "write")
              /\ UNCHANGED <<trace, computed>>
           \/ /\ path.some
              /\ UNCHANGED files
              /\ StepErr(p, CacheError("failed to write", path.val))
              /\ Log(p, <<Ev("write", prefix, [ok |-> FALSE, path |-> path.val])>>)
              /\ computed' = [computed EXCEPT ![p] = None]
    /\ UNCHANGED <<now, cacheDir, issued, config, challenge, startFiles, entry, suffixOf,
                   awsConfig, chain>>

\* What a file holds after `content` was written at its start through a
\* descriptor of the writer's own.  A file that another process has written
\* since it was cut holds that text; the writer's text replaces it when it is
\* at least as long, and otherwise the file is the writer's text followed by
\* the end of the longer one, which is no JSON document.  The lengths are those
\* of the values the remote services gave: either outcome can be.
AfterWrite(file, content) ==
    IF file = Empty THEN {Text(content)} ELSE {Text(content), Text(Garbage)}

\* cache.rs:72-77  fs::write writes the text into the file it opened and
\* get_or_init returns the value.
CacheWrite(p) ==
    /\ pc[p] = "write"
    /\ LET prefix == step[p]
           path == CachePath(cacheDir, CacheNew(config[p].val), prefix)
           value == computed[p].val
       IN  /\ \E file \in AfterWrite(files[path.val], ToStringPretty(prefix, value)) :
                files' = [files EXCEPT ![path.val] = file]
           /\ StepOk(p, value)
           /\ Log(p, <<Ev("write", prefix, [ok |-> TRUE, path |-> path.val]),
                       Ev("return", prefix, value)>>)
    /\ computed' = [computed EXCEPT ![p] = None]
    /\ UNCHANGED <<now, cacheDir, issued, config, challenge, startFiles, entry, suffixOf,
                   awsConfig, chain>>

\* The steps of a call in progress, the write to the cache in its two parts.
RunTwo(p) ==
    \/ CacheLookup(p)
    \/ RegisterClient(p)
    \/ StartDeviceAuthorization(p)
    \/ Prompt(p)
    \/ CreateToken(p)
    \/ Sleep(p)
    \/ GetRoleCredentials(p)
    \/ CacheCreate(p)
    \/ CacheWrite(p)

NextTwo ==
    \/ \E p \in Procs : ~Called(p) /\ Authenticate(p)
    \/ \E p \in Procs : RunTwo(p)

SpecTwo == InitTwo /\ [][NextTwo]_vars

\* The events the step taken has added to the trace of p.
NewEvents(p) == SubSeq(trace'[p], Len(trace[p]) + 1, Len(trace'[p]))

\* The step taken is one in which the write of p to the path completes, and
\* get_or_init returns the value written.
WroteNow(p, path) ==
    /\ pc[p] = "write"
    /\ Len(NewEvents(p)) = 2
    /\ NewEvents(p)[1] = Ev("write", step[p], [ok |-> TRUE, path |-> path])
    /\ NewEvents(p)[2] = Ev("return", step[p], computed[p].val)

(* C24: after a step in which a process completes its write to a path of the *)
(* cache directory, the path holds the value that process computed and       *)
(* returns, whatever the path held and whichever process wrote it before: at *)
(* any time an entry that has been written is that of the write that         *)
(* completed last.                                                           *)
C24_NoLockLastWriteWins ==
    [][\A path \in DOMAIN files : \A p \in Procs :
         WroteNow(p, path) => files'[path] = Written(step[p], computed[p].val)]_vars


------------------------------------------------------------------------------
(* The prompt in create_token *)

\* The challenge create_token made of the StartDeviceAuthorization answer at
\* place i of the trace of p, or the error.
ChallengeAt(p, i) == StartDeviceAuthorizationResult(trace[p][i].data.answer)

(* C25: a call prompts at most once, and only directly after a               *)
(* StartDeviceAuthorization whose answer gave a challenge, with the           *)
(* verification_uri_complete of that challenge; a StartDeviceAuthorization    *)
(* that gave a challenge is followed by the prompt and by nothing else, one   *)
(* that gave none is followed by no prompt and no CreateToken.  Every         *)
(* CreateToken call comes after the one prompt, which answered Ok, and the    *)
(* first comes directly after it; after a prompt that failed there is no      *)
(* CreateToken call.                                                          *)
C25_PromptOnceBeforePolling ==
    \A p \in Procs :
        LET starts == Places(p, "StartDeviceAuthorization")
            prompts == Places(p, "prompt")
            calls == Places(p, "CreateToken")
        IN  /\ Cardinality(prompts) <= 1
            /\ \A i \in prompts :
                 /\ i - 1 \in starts
                 /\ ChallengeAt(p, i - 1).ok
                 /\ trace[p][i].data.url
                        = ChallengeAt(p, i - 1).val.verification_uri_complete
                 /\ trace[p][i].data.outcome.ok
                      => IF i = Len(trace[p]) THEN pc[p] = "poll"
                         ELSE i + 1 \in calls
                 /\ ~trace[p][i].data.outcome.ok
                      => calls = {} /\ i = Len(trace[p]) /\ pc[p] = "idle"
            /\ \A i \in starts :
                 IF ChallengeAt(p, i).ok
                 THEN IF i = Len(trace[p]) THEN pc[p] = "prompt"
                      ELSE i + 1 \in prompts
                 ELSE prompts = {} /\ calls = {}
            /\ \A j \in calls :
                 /\ Cardinality(prompts) = 1
                 /\ \A i \in prompts : i < j /\ trace[p][i].data.outcome.ok
                 /\ \A i \in prompts : \A k \in (i + 1)..(j - 1) :
                      trace[p][k].ev \in {"CreateToken", "sleep"}

\* A call that prompted once with the URL of its challenge and has polled
\* three times since.
C25_Witness ==
    \E p \in Procs : \E i \in Places(p, "prompt") :
        /\ trace[p][i].data.url = ChallengeAt(p, i - 1).val.verification_uri_complete
        /\ Cardinality(Places(p, "CreateToken")) = 3
        /\ i + 1 \in Places(p, "CreateToken")


------------------------------------------------------------------------------
(* The order of the steps of authenticate *)

\* The places of the trace of p, after the load, that belong to the step.
StepPlaces(p, prefix) ==
    {i \in DOMAIN trace[p] : i > 1 /\ trace[p][i].prefix = prefix}

\* The places at which get_or_init of the step returned a value.
Returns(p, prefix) == {i \in StepPlaces(p, prefix) : trace[p][i].ev = "return"}

\* The call of p has ended with an error of the flow.
FlowEnded(p) == Loaded(p) /\ pc[p] = "idle" /\ result[p].some /\ ~result[p].val.ok

(* C26: in the trace of a call the events of the client step come before     *)
(* those of the token step and these before those of the credentials step;   *)
(* a step returns a value at most once and that is its last event; an event  *)
(* of a step is there only when every earlier step has returned a value, and *)
(* the step in progress has the values of the steps before it.  A call that  *)
(* ended with an error ended in the step of its last event, which returned   *)
(* no value, and no later step has an event; a call that returned            *)
(* credentials has a value returned by each of the three steps, in order.    *)
C26_StepsInOrder ==
    \A p \in Procs :
        Loaded(p)
        => /\ \A i, j \in 2..Len(trace[p]) :
                i < j => StepIndex(trace[p][i].prefix) <= StepIndex(trace[p][j].prefix)
           /\ \A pre \in Prefixes :
                /\ Cardinality(Returns(p, pre)) <= 1
                /\ \A i \in Returns(p, pre) : \A j \in StepPlaces(p, pre) : j <= i
                /\ StepPlaces(p, pre) # {}
                     => \A before \in Prefixes :
                          StepIndex(before) < StepIndex(pre)
                          => \E i \in Returns(p, before) :
                               \A j \in StepPlaces(p, pre) : i < j
           /\ pc[p] # "idle"
                => /\ \A i \in 2..Len(trace[p]) :
                        StepIndex(trace[p][i].prefix) <= StepIndex(step[p])
                   /\ Returns(p, step[p]) = {}
                   /\ StepIndex(step[p]) > 1 => client[p].some /\ Returns(p, "client") # {}
                   /\ StepIndex(step[p]) > 2 => token[p].some /\ Returns(p, "token") # {}
           /\ FlowEnded(p)
                => /\ Len(trace[p]) > 1
                   /\ Last(p).ev # "return"
                   /\ Returns(p, Last(p).prefix) = {}
                   /\ \A pre \in Prefixes :
                        StepIndex(pre) > StepIndex(Last(p).prefix)
                        => StepPlaces(p, pre) = {}
           /\ (pc[p] = "idle" /\ result[p].some /\ result[p].val.ok)
                => /\ \A pre \in Prefixes : Returns(p, pre) # {}
                   /\ Last(p).ev = "return" /\ Last(p).prefix = "credentials"

\* A call whose client step returned a value and whose token step failed after
\* a remote operation: the credentials step has no event.
C26_Witness ==
    \E p \in Procs :
        /\ FlowEnded(p)
        /\ Returns(p, "client") # {}
        /\ Last(p).prefix = "token"
        /\ Last(p).ev = "CreateToken"
        /\ StepPlaces(p, "credentials") = {}


------------------------------------------------------------------------------
(* C27: a read that is answered from the cache found an artifact whose       *)
(* expires_at is later than the time of the read; the session credentials    *)
(* authenticate returns from the cache have not expired when it returns.     *)
C27_NoExpiredFromCache ==
    \A p \in Procs : \A i \in Places(p, "read") :
        LET e == trace[p][i] IN
        (Parses(e) /\ Honoured(p, i)) => CachedExpiry(e) > e.data.at


------------------------------------------------------------------------------
(* A StartDeviceAuthorization response with a member missing *)

\* The members a StartDeviceAuthorization response is said to supply.
ChallengeMembers ==
    {"device_code", "user_code", "verification_uri_complete", "interval", "expires_in"}

\* The members create_token takes from the response (sso_oidc.rs:193-199).
ChallengeFields == {"device_code", "interval", "user_code", "verification_uri_complete"}

\* The StartDeviceAuthorization at place i of the trace of p ended the call
\* with an Api error: no prompt, no CreateToken call, nothing after it.
EndedAtStart(p, i) ==
    /\ i = Len(trace[p])
    /\ FailedWith(p, "Api")
    /\ Places(p, "prompt") = {}
    /\ Places(p, "CreateToken") = {}

------------------------------------------------------------------------------
(* A successful answer with a required member missing *)

\* The members the response types of this crate take from a successful answer:
\* sso_oidc.rs:124-132, 176-183; sso.rs:79-94 (those of role_credentials).
RequiredMembers(op) ==
    IF op = "RegisterClient"
    THEN {"client_id", "client_secret", "client_secret_expires_at"}
    ELSE IF op = "CreateToken"
    THEN {"access_token", "expires_in"}
    ELSE {"access_key_id", "secret_access_key", "session_token", "expiration"}

\* The required members the response of a successful answer lacks;
\* GetRoleCredentials has its members inside role_credentials.
MembersMissing(op, res) ==
    IF op = "GetRoleCredentials"
    THEN IF "role_credentials" \notin DOMAIN res
         THEN {"role_credentials"}
         ELSE RequiredMembers(op) \ DOMAIN res.role_credentials
    ELSE RequiredMembers(op) \ DOMAIN res

\* The name the error message gives a missing member (sso.rs:93).
MemberName(f) == IF f = "expiration" THEN "expires_at" ELSE f

\* The operations whose answer becomes the artifact of a step.
ArtifactOps == {"RegisterClient", "CreateToken", "GetRoleCredentials"}

(* C29: when RegisterClient, CreateToken or GetRoleCredentials is answered   *)
(* with a response that lacks a required member, the call ends there with    *)
(* SsoFlowError::Api, whose message names the operation and a member that is *)
(* missing; the step has no write and returns no value, and the cache file   *)
(* of the step is as it was when the call began.                             *)
C29_MissingMemberIsApiError ==
    \A p \in Procs : \A i \in DOMAIN trace[p] :
        LET e == trace[p][i] IN
        ( /\ e.ev \in ArtifactOps
          /\ e.data.answer.ok
          /\ MembersMissing(e.ev, e.data.answer.val) # {} )
        => /\ i = Len(trace[p])
           /\ FailedWith(p, "Api")
           /\ \E f \in MembersMissing(e.ev, e.data.answer.val) :
                result[p].val.err.inner.msg
                    = "invalid " \o e.ev \o " response: missing " \o MemberName(f)
           /\ \A j \in Places(p, "write") \cup Places(p, "return") :
                trace[p][j].prefix # e.prefix
           /\ LET name == FileName(e.prefix, CacheNew(trace[p][1].data.val))
              IN  files[name] = startFiles[p][name]

\* With a cache directory set and the credentials file out of date, a
\* GetRoleCredentials answer whose role_credentials lack the session_token has
\* ended the call.
C29_Witness ==
    \E p \in Procs : \E i \in Places(p, "GetRoleCredentials") :
        LET answer == trace[p][i].data.answer IN
        /\ cacheDir.some
        /\ answer.ok
        /\ MembersMissing("GetRoleCredentials", answer.val) = {"session_token"}
        /\ FailedWith(p, "Api")
        /\ trace[p][i - 1].ev = "read"
        /\ Parses(trace[p][i - 1])


------------------------------------------------------------------------------
(* No retry *)

\* The event is a failure: a cache failure, a remote operation that gave its
\* step no value and no reason to ask again, or a prompt that answered Err.
Failure(e) ==
    \/ FailedCacheOp(e)
    \/ FailedRemoteOp(e)
    \/ e.ev = "CreateToken" /\ ~e.data.answer.ok
         /\ e.data.answer.err.service = "ExpiredToken"
    \/ e.ev = "prompt" /\ ~e.data.outcome.ok

\* The operations a call makes once at most.
SingleOps == {"RegisterClient", "StartDeviceAuthorization", "GetRoleCredentials", "prompt"}

(* C30: a call makes RegisterClient, StartDeviceAuthorization and             *)
(* GetRoleCredentials at most once each, prompts at most once, and reads and  *)
(* writes the cache file of a step at most once; a CreateToken call that is   *)
(* not the first comes two places after a CreateToken call that was answered  *)
(* AuthorizationPending, with the sleep between.  A failure of a remote       *)
(* operation, of the cache or of the prompt is the last event of the trace:   *)
(* the call has ended with an error and nothing was tried after it.           *)
C30_NoSilentRetry ==
    \A p \in Procs :
        /\ \A op \in SingleOps : Cardinality(Places(p, op)) <= 1
        /\ \A pre \in Prefixes : \A ev \in {"read", "write"} :
             Cardinality({i \in Places(p, ev) : trace[p][i].prefix = pre}) <= 1
        /\ \A j \in Places(p, "CreateToken") :
             (\E i \in Places(p, "CreateToken") : i < j)
             => /\ AnsweredWith(p, j - 2, "AuthorizationPending")
                /\ trace[p][j - 1].ev = "sleep"
        /\ \A i \in DOMAIN trace[p] :
             (i > 1 /\ Failure(trace[p][i]))
             => /\ i = Len(trace[p])
                /\ FlowEnded(p)

\* A call whose GetRoleCredentials was answered with an error of the service
\* after a token was polled for twice: each asked once, and the call ended.
C30_Witness ==
    \E p \in Procs :
        /\ FlowEnded(p)
        /\ Last(p).ev = "GetRoleCredentials"
        /\ ~Last(p).data.answer.ok
        /\ Cardinality(Places(p, "CreateToken")) = 2
        /\ Cardinality(Places(p, "RegisterClient")) = 1


------------------------------------------------------------------------------
(* Any other error of CreateToken *)

\* The CreateToken call at place i of the trace of p was answered with an
\* error of the service that is neither AuthorizationPending nor ExpiredToken.
OtherError(p, i) ==
    /\ trace[p][i].ev = "CreateToken"
    /\ ~trace[p][i].data.answer.ok
    /\ trace[p][i].data.answer.err.service
           \notin {"AuthorizationPending", "ExpiredToken"}

(* C31: a CreateToken call answered with an error that is neither            *)
(* AuthorizationPending nor ExpiredToken is the last event of the trace (no  *)
(* CreateToken call and no sleep follows it): the call has ended with        *)
(* SsoFlowError::Api, whose message is error.to_string() of that error, and  *)
(* nothing was written for the token.                                        *)
C31_OtherErrorIsApi ==
    \A p \in Procs : \A i \in Places(p, "CreateToken") :
        OtherError(p, i)
        => /\ i = Len(trace[p])
           /\ FailedWith(p, "Api")
           /\ result[p].val.err.inner.msg = ErrorToString(trace[p][i].data.answer.err)
           /\ \A j \in Places(p, "write") : trace[p][j].prefix # "token"

\* A call that polled, was told to wait, slept, polled again and was answered
\* with another error.
C31_Witness ==
    \E p \in Procs : \E i \in Places(p, "CreateToken") :
        /\ OtherError(p, i)
        /\ i > 2
        /\ trace[p][i - 1].ev = "sleep"
        /\ AnsweredWith(p, i - 2, "AuthorizationPending")
        /\ FailedWith(p, "Api")


------------------------------------------------------------------------------
(* Calls that fail or are abandoned *)

\* Abandon that undoes what the call has written.
AbandonRollsBack(p) ==
    /\ pc[p] # "idle"
    /\ pc' = [pc EXCEPT ![p] = "idle"]
    /\ files' = startFiles[p]
    /\ UNCHANGED <<now, cacheDir, issued, step, config, client, token, computed,
                   challenge, trace, result, prevOk, startFiles, entry, suffixOf,
                   awsConfig, chain>>

\* The caller drops the future of authenticate at a suspension point (an await
\* of flow.rs:101-158, cache.rs:47/72-75 or sso_oidc.rs:44-73): the call takes
\* no further step and answers nothing.  No destructor of the flow touches the
\* cache directory.
Abandon(p) ==
    /\ pc[p] # "idle"
    /\ pc' = [pc EXCEPT ![p] = "idle"]
    /\ UNCHANGED <<now, cacheDir, files, issued, step, config, client, token, computed,
                   challenge, trace, result, prevOk, startFiles, entry, suffixOf,
                   awsConfig, chain>>

\* SpecAbandon: one process calls authenticate again and again, with a cache
\* directory that is empty at first; a call runs to its end or is abandoned.
InitAbandon ==
    /\ Init
    /\ cacheDir.some
    /\ \A pre \in Prefixes : FilesOf(files, TheConfig)[pre] = NotFound

NextAbandon ==
    \/ \E p \in MainProcs : Authenticate(p)
    \/ \E p \in MainProcs : Run(p)
    \/ \E p \in MainProcs : Abandon(p)
    \/ Tick

SpecAbandon == InitAbandon /\ [][NextAbandon]_vars

\* The text the write at place i of the trace of p left in its file.
TextWritten(p, i) == Written(trace[p][i].prefix, trace[p][i + 1].data)

\* The step taken is the beginning of a call of p.
CallBegins(p) == pc[p] = "idle" /\ trace'[p] # trace[p]

(* C32: a file the call in progress, or the call that ended last, has         *)
(* written holds what was written, whatever has happened since: a later step  *)
(* that failed, the call abandoned, time passing.  When the next call begins  *)
(* the directory is as the call before left it.  What a step reads is what    *)
(* its file held when the call began, and a read that finds an artifact that  *)
(* has not expired is answered from the cache.                                *)
C32_NoRollback ==
    /\ [](\A p \in MainProcs : \A i \in WritesDone(p) :
            files[trace[p][i].data.path] = TextWritten(p, i))
    /\ [][\A p \in MainProcs :
            CallBegins(p)
            => /\ files' = files
               /\ \A i \in WritesDone(p) :
                    startFiles'[p][trace[p][i].data.path] = TextWritten(p, i)]_vars
    /\ [](\A p \in MainProcs : \A i \in Places(p, "read") :
            LET e == trace[p][i] IN
            /\ e.data.file = startFiles[p][e.data.path]
            /\ (Parses(e) /\ CachedExpiry(e) > e.data.at) => Honoured(p, i))

\* The call before wrote the client registration and ended, by an error or
\* abandoned, before a token was written; the call in progress has been given
\* that registration from the cache.
C32_Witness ==
    \E p \in MainProcs : \E i \in Places(p, "read") :
        LET before == FilesOf(startFiles[p], TheConfig) IN
        /\ ~prevOk[p].some
        /\ before["client"].kind = "text"
        /\ before["token"] = NotFound
        /\ trace[p][i].prefix = "client"
        /\ Honoured(p, i)
        /\ client[p] = Some(trace[p][i + 1].data)


------------------------------------------------------------------------------
(* The life of a cache file *)

\* The step taken is one in which p stores the value its init() returned: the
\* write succeeds and get_or_init returns the value.
Stored(p, path) ==
    /\ pc[p] = "store"
    /\ computed[p].some
    /\ NewEvents(p) = <<Ev("write", step[p], [ok |-> TRUE, path |-> path]),
                        Ev("return", step[p], computed[p].val)>>

\* The last remote operation of the step in progress gave init() its value.
FetchSucceeded(p) ==
    /\ Last(p).ev \in RemoteOps
    /\ Last(p).prefix = step[p]
    /\ InitResult(Last(p), 0).ok

(* C33: in every step, a path of the cache directory that holds a file holds *)
(* a file afterwards; and a path whose content changes is the path of the    *)
(* step of a process that stores the value its init() has just returned,     *)
(* after a remote operation that succeeded, and it then holds that value.    *)
C33_NeverDeleted ==
    [][\A path \in DOMAIN files :
         /\ files[path] # NotFound => files'[path] # NotFound
         /\ files'[path] # files[path]
              => \E p \in Procs :
                   /\ Stored(p, path)
                   /\ FetchSucceeded(p)
                   /\ files'[path] = Written(step[p], computed[p].val)]_vars

\* A token that was out of date when the call began has been replaced by the
\* token the call was given.
C33_Witness ==
    \E p \in Procs : \E i \in WritesDone(p) :
        LET path == trace[p][i].data.path
            before == startFiles[p][path]
        IN  /\ trace[p][i].prefix = "token"
            /\ before.kind = "text"
            /\ FromStr("token", before.text).ok
            /\ files[path] = TextWritten(p, i)
            /\ files[path] # before


------------------------------------------------------------------------------
(* The first section of the profile *)

\* The file cut down to the first section of the profile: its header and the
\* lines after it up to the next header, without the comments.
FirstSection(file, profile) ==
    LET first == CHOOSE i \in HeadersOf(file, profile) :
                     \A j \in HeadersOf(file, profile) : i <= j
        rest == SectionOf(file, profile)
    IN  <<file[first]>>
            \o SelectSeq([k \in 1..Cardinality(rest) |-> file[first + k]],
                         LAMBDA line : line.kind # "comment")

\* The lines of the file that are not in the first section of the profile and
\* not its header.
Outside(file, profile) ==
    LET first == CHOOSE i \in HeadersOf(file, profile) :
                     \A j \in HeadersOf(file, profile) : i <= j
    IN  (DOMAIN file \ SectionOf(file, profile)) \ {first}

(* C34: the load of a profile from a file that can be read answers that the  *)
(* profile is not defined exactly when no header of the file, in the form     *)
(* [profile name] or [name], names the profile; otherwise it answers what it  *)
(* would answer for the file cut down to the first section of the profile,    *)
(* comments left out: the lines before that section and from the next header  *)
(* on, a later section of the same profile among them, and the comments       *)
(* change nothing of the answer.                                              *)
C34_FirstSectionOnly ==
    \A p \in Procs :
        (Called(p) /\ awsConfig.file.ok)
        => LET file == awsConfig.file.val
               profile == awsConfig.profile
               undefined == Err(SsoProfileError("profile " \o profile
                                \o " is not defined in in config file "
                                \o awsConfig.path))
           IN  IF HasSection(file, profile)
               THEN /\ LoadAnswer(p) # undefined
                    /\ LoadAnswer(p)
                           = ParseProfile(awsConfig.path,
                                          Ok(FirstSection(file, profile)), profile)
               ELSE LoadAnswer(p) = undefined

\* A file with two sections of the profile: the first gives the region, the
\* second, after a comment, the role; the load answers that the role is missing.
C34_Witness ==
    \E p \in Procs :
        /\ Called(p)
        /\ awsConfig.file.ok
        /\ Cardinality(HeadersOf(awsConfig.file.val, awsConfig.profile)) = 2
        /\ ValuedLines(awsConfig.file.val, awsConfig.profile, "sso_region") # {}
        /\ \E i \in Outside(awsConfig.file.val, awsConfig.profile) :
             awsConfig.file.val[i] = TextLine(<<"sso_role_name", TheConfig.role_name>>)
        /\ \E i \in DOMAIN awsConfig.file.val : awsConfig.file.val[i] = CommentLine
        /\ ~LoadAnswer(p).ok
        /\ LoadAnswer(p)
               = ParseProfile(awsConfig.path,
                              Ok(FirstSection(awsConfig.file.val, awsConfig.profile)),
                              awsConfig.profile)


-----------------------------------------------------------------------------
(* What a get_or_init that stores nothing leaves behind *)

\* The get_or_init whose read is at place i of the trace of p returned the
\* value of the file.
HitAt(p, i) == Honoured(p, i)

\* The get_or_init whose read is at place i of the trace of p returned a
\* Cache error for the file it read: the file is unreadable or does not parse.
CacheErrorAt(p, i) ==
    /\ i = Len(trace[p])
    /\ FailedWith(p, "Cache")
    /\ \/ trace[p][i].data.file.kind = "Unreadable"
       \/ trace[p][i].data.file.kind = "text" /\ ~Parses(trace[p][i])

\* The get_or_init whose read is at place i of the trace of p went on to
\* init(), and init() returned an error: the call ended at an event of init()
\* of that step, with an error.
ComputeErrorAt(p, i) ==
    /\ i < Len(trace[p])
    /\ pc[p] = "idle"
    /\ result[p].some
    /\ ~result[p].val.ok
    /\ Last(p).ev \in ComputeEvents
    /\ Last(p).prefix = trace[p][i].prefix

\* The write at place j of the trace of p follows, in the same get_or_init,
\* a remote operation whose answer gave init() its value.
AfterComputed(p, j) ==
    /\ j > 1
    /\ trace[p][j - 1].ev \in RemoteOps
    /\ trace[p][j - 1].prefix = trace[p][j].prefix
    /\ \E t \in 0..now : InitResult(trace[p][j - 1], t).ok

(* C35: get_or_init writes a cache file only after its init() succeeded in   *)
(* the same call: every write in the trace comes straight after a remote     *)
(* operation of the same step that gave init() its value, and a path whose   *)
(* content is not what it was when the call began is the path of such a      *)
(* write; a get_or_init that returned the cached value, a Cache error for    *)
(* the file it read or the error of its init() has no write in the trace,    *)
(* and the file it read, a stale entry included, is still at its path as it  *)
(* was read.                                                                 *)
C35_WriteOnlyAfterCompute ==
    \A p \in MainProcs :
        /\ \A j \in Places(p, "write") : AfterComputed(p, j)
        /\ \A path \in DOMAIN files :
             files[path] # startFiles[p][path]
             => \E j \in WritesDone(p) : trace[p][j].data.path = path
        /\ \A i \in Places(p, "read") :
             (HitAt(p, i) \/ CacheErrorAt(p, i) \/ ComputeErrorAt(p, i))
             => /\ \A j \in Places(p, "write") :
                     trace[p][j].prefix # trace[p][i].prefix
                /\ files[trace[p][i].data.path] = trace[p][i].data.file

\* The call found a token that was out of date, went to the service for a new
\* one and failed there: the old token is still in its file.
C35_Witness ==
    \E p \in MainProcs : \E i \in Places(p, "read") :
        LET e == trace[p][i] IN
        /\ e.prefix = "token"
        /\ Parses(e)
        /\ ~IsValid(CachedExpiry(e), e.data.at)
        /\ ComputeErrorAt(p, i)
        /\ files[e.data.path] = e.data.file


-----------------------------------------------------------------------------
(* The round trip through the cache file *)

\* The times the clock can show: every sleep of a device-authorization
\* dialogue moves it on.
Clock == 0..(MaxNow + MaxPending * MaxIssued)

\* The values init() of a step can return: what the TryFrom of the step makes
\* of a complete response of the service.
Issuable(prefix) ==
    {Artifact(prefix, id, t + life) :
        id \in 1..MaxIssued, t \in Clock, life \in Lifetimes}

\* The step taken is a get_or_init of p for the prefix that returns value from
\* the file at the path, without init(): the read and the return are the new
\* events, and p is not at init().
ReturnsCached(p, prefix, path, value) ==
    /\ NewEvents(p) = <<Ev("read", prefix,
                           [at |-> now, path |-> path, file |-> files[path]]),
                        Ev("return", prefix, value)>>
    /\ pc'[p] # "init"
    /\ files' = files
    /\ issued' = issued

(* C36: the file a get_or_init has written after its init() parses back to   *)
(* the value the get_or_init returned; and a get_or_init that begins while   *)
(* the file of its prefix holds what was written for a value whose expiry    *)
(* passes the test of cache.rs:51-53 at that time returns that value without *)
(* init(): no remote operation, no prompt, no write.                         *)
C36_RoundTrip ==
    /\ [](\A p \in MainProcs : \A i \in WritesDone(p) :
            LET e == trace[p][i]
                value == trace[p][i + 1].data
            IN  /\ value \in Issuable(e.prefix)
                /\ files[e.data.path].kind = "text"
                /\ FromStr(e.prefix, files[e.data.path].text) = Ok(value))
    /\ [][\A p \in MainProcs :
            LET path == CachePath(cacheDir, CacheNew(TheConfig), step[p]) IN
            (pc[p] = "lookup" /\ trace'[p] # trace[p] /\ path.some)
            => \A value \in Issuable(step[p]) :
                 ( /\ files[path.val] = Written(step[p], value)
                   /\ IsValid(ExpiresAt(step[p], value), now) )
                 => ReturnsCached(p, step[p], path.val, value)]_vars

\* The call before this one was given a token by the service and wrote it; the
\* call in progress has read the file and has been given the same token from
\* the cache.
C36_Witness ==
    \E p \in MainProcs : \E i \in Places(p, "read") :
        LET e == trace[p][i] IN
        /\ e.prefix = "token"
        /\ startFiles[p][e.data.path] = e.data.file
        /\ \E value \in Issuable("token") :
             /\ e.data.file = Written("token", value)
             /\ IsValid(ExpiresAt("token", value), e.data.at)
             /\ trace[p][i + 1] = Ev("return", "token", value)
        /\ \A j \in DOMAIN trace[p] : trace[p][j].ev \notin ComputeEvents


-----------------------------------------------------------------------------
(* The order of the cache layers *)

\* The file is an entry of the prefix that get_or_init honours at time t.
ValidEntry(prefix, file, t) ==
    /\ file.kind = "text"
    /\ FromStr(prefix, file.text).ok
    /\ IsValid(ExpiresAt(prefix, FromStr(prefix, file.text).val), t)

\* The read at place i of the trace of p found no entry or a stale one.
MissAt(p, i) ==
    LET e == trace[p][i] IN
    \/ e.data.file.kind = "NotFound"
    \/ Parses(e) /\ ~IsValid(CachedExpiry(e), e.data.at)

\* The cache file of the credentials of the call of p, as the call found the
\* directory.
CredentialsAtStart(p) ==
    startFiles[p][FileName("credentials", CacheNew(TheConfig))]

(* C37: while the credentials file holds, from the beginning of the call on, *)
(* an entry that is still valid, authenticate consults the layers in the     *)
(* order client, token, credentials: a read of a layer comes after the read  *)
(* and the return of every layer before it; a read of the client or token    *)
(* layer that finds no entry or a stale one is followed by RegisterClient or *)
(* StartDeviceAuthorization, and the credentials are read only after the     *)
(* prompt of that dialogue; and when init() of the client or token layer has *)
(* failed the call has failed with its error, the credentials file was never *)
(* read and no credentials are returned.                                     *)
C37_ValidCredentialsDoNotShortCircuit ==
    \A p \in MainProcs :
        (cacheDir.some /\ ValidEntry("credentials", CredentialsAtStart(p), now))
        => \A i \in Places(p, "read") :
             LET e == trace[p][i] IN
             /\ \A before \in Prefixes :
                  StepIndex(before) < StepIndex(e.prefix)
                  => \E j, k \in 1..(i - 1) :
                       /\ j < k
                       /\ trace[p][j].ev = "read"
                       /\ trace[p][j].prefix = before
                       /\ trace[p][k].ev = "return"
                       /\ trace[p][k].prefix = before
             /\ (e.prefix # "credentials" /\ MissAt(p, i))
                  => /\ i < Len(trace[p]) => /\ trace[p][i + 1].ev = FirstOp(e.prefix)
                                             /\ trace[p][i + 1].prefix = e.prefix
                     /\ i = Len(trace[p]) => pc[p] = "init" /\ step[p] = e.prefix
                     /\ \A c \in Places(p, "read") :
                          (trace[p][c].prefix = "credentials" /\ e.prefix = "token")
                          => \E j \in Places(p, "prompt") : i < j /\ j < c
             /\ (e.prefix # "credentials" /\ ComputeErrorAt(p, i))
                  => /\ \A c \in Places(p, "read") : trace[p][c].prefix # "credentials"
                     /\ ~ReturnedCredentials(p)
                     /\ \/ FailedWith(p, "Api")
                        \/ FailedWith(p, "VerificationPrompt")
                        \/ FailedWith(p, "VerificationPromptTimeout")

\* Valid credentials are cached and the token is stale; the user was prompted
\* and the prompt failed: the call has failed with the error of the prompt.
C37_Witness ==
    \E p \in MainProcs : \E i \in Places(p, "read") :
        /\ ValidEntry("credentials", CredentialsAtStart(p), now)
        /\ trace[p][i].prefix = "token"
        /\ Parses(trace[p][i])
        /\ MissAt(p, i)
        /\ Last(p).ev = "prompt"
        /\ FailedWith(p, "VerificationPrompt")


-----------------------------------------------------------------------------
(* A read while another process writes *)

\* What the path of a prefix holds when no write to it is under way: no file,
\* what an earlier run left there or the whole text of a value a get_or_init
\* has written.
CompleteContents(prefix) ==
    {NotFound}
        \cup {Written(prefix, Artifact(prefix, 0, exp)) : exp \in InitExpiries}
        \cup {Written(prefix, value) : value \in Issuable(prefix)}

\* The read at place i of the trace of p ended the call with the "corrupt"
\* Cache error.
CorruptAt(p, i) ==
    /\ i = Len(trace[p])
    /\ FailedWith(p, "Cache")
    /\ result[p].val.err.inner.msg = <<"corrupt", trace[p][i].data.path>>

(* C38: whatever the other process is doing, a get_or_init that reads a      *)
(* cache path finds no file there, or the whole of what the path held        *)
(* before, or the whole of what was written to it; no read ends a call with  *)
(* the "corrupt" Cache error.  (The directory holds no file that does not    *)
(* parse when the two calls begin.)                                          *)
C38_ReadsSeeCompleteFiles ==
    \A p \in Procs : \A i \in Places(p, "read") :
        /\ trace[p][i].data.file \in CompleteContents(trace[p][i].prefix)
        /\ ~CorruptAt(p, i)

====
